---- MODULE Spec2Model ----
(***************************************************************************)
(* State-machine model of perceval.components.processor.Processor: the     *)
(* build phase (add, add_herald, add_port, set_postprocess), the input     *)
(* configuration (with_input, source assignment) and the simulation        *)
(* orchestration (samples, probs).                                         *)
(***************************************************************************)
EXTENDS Integers, Sequences, FiniteSets, TLC

(* ---------------------------- bounds ----------------------------------- *)
MaxMoi == 2          \* the mode-of-interest count given to the constructor
MaxSize == 2         \* no structure-growing call once heralds + components + ports + changed settings reach this
MaxCount == 1        \* largest count given to samples
MaxRejects == 1      \* the loop of samples rejects at most this often per counter
MaxSimComps == 1     \* SpecSim: no plain add once the component list is this long
MaxSimHeralds == 1   \* SpecSim: no add_herald once n_heralds reaches this
MaxCopyCalls == 1    \* SpecCopy: the calls made on one of the two objects after copy()

(* ------------------------- small helpers ------------------------------- *)
Range(s) == {s[i] : i \in 1..Len(s)}

\* Python's list(range(a, b))
PyRange(a, b) == [i \in 1..(IF b > a THEN b - a ELSE 0) |-> a + i - 1]

Min(S) == CHOOSE x \in S : \A y \in S : x <= y

Max(S) == CHOOSE x \in S : \A y \in S : x >= y

\* sequence s without its i-th element
RemoveAt(s, i) == [j \in 1..(Len(s) - 1) |-> IF j < i THEN s[j] ELSE s[j + 1]]

(* ----------------------------- ports ----------------------------------- *)
\* A port object: obj is the identity of the Python object ("fresh" for an
\* object created inside the Processor), kind its class, m its mode width.
\* A port name is None, a str or an int; names of different types differ
\* ('0' is not 0).
NoName == [type |-> "NoneType", str |-> "", int |-> 0]

StrName(s) == [type |-> "str", str |-> s, int |-> 0]

PortA == [obj |-> "a", kind |-> "Port", m |-> 1, name |-> StrName("a"), expected |-> -1]

PortD == [obj |-> "d", kind |-> "Port", m |-> 2, name |-> StrName("d"), expected |-> -1]

PortDet == [obj |-> "det", kind |-> "Detector", m |-> 1, name |-> StrName("det"), expected |-> -1]

UserPorts == {PortD, PortDet}

\* Herald(value, name): the constructor asserts value in {0, 1}
Herald(expected, name) ==
    [obj |-> "fresh", kind |-> "Herald", m |-> 1, name |-> name, expected |-> expected]

HeraldValueOk(expected) == expected = 0 \/ expected = 1

\* fault: the name of a herald is not handed on
HeraldAttributes_mut(port) ==
    [expected |-> port.expected, user_given_name |-> NoName]

\* port.expected and port.user_given_name of a Herald, read by
\* _compose_processor and not defined in port.py: the value and the name
\* the herald was made with ("the herald's expected value and name
\* preserved", section 8)
HeraldAttributes(port) ==
    [expected |-> port.expected, user_given_name |-> port.name]

PortLocations == {"INPUT", "OUTPUT", "IN_OUT"}

\* fault: a detector is taken at every location
supports_location_mut(port, loc) == TRUE

\* APort.supports_location / ADetector.supports_location
supports_location(port, loc) ==
    IF port.kind = "Detector" THEN loc = "OUTPUT" ELSE TRUE

\* Port / Herald / ADetector . is_output_photonic_mode_closed
is_output_photonic_mode_closed(port) == port.kind \in {"Herald", "Detector"}

\* the name _add_herald gives to an anonymous herald: the int held by
\* _anon_herald_num
AnonName(n) == [type |-> "int", str |-> "", int |-> n]

(* --------------------------- predicates -------------------------------- *)
\* A post-selection function.  fn names the user's function; layers lists,
\* outermost first, the lambdas that _compose_processor wrapped around it:
\* each reads the state through its permutation and calls the next.
NoPredicate == [fn |-> "None", layers |-> <<>>]

PredAny == [fn |-> "any", layers |-> <<>>]

PredFirst == [fn |-> "first", layers |-> <<>>]

UserPredicates == {PredFirst}

(* --------------------------- components -------------------------------- *)
\* A component object: obj is the identity of the Python object, "fresh"
\* for one created inside the Processor (a copy, a generated permutation).
BS == [obj |-> "bs", kind |-> "BS", m |-> 2, perm |-> <<>>]

PS == [obj |-> "ps", kind |-> "PS", m |-> 1, perm |-> <<>>]

\* PERM(perm_vector): input mode i is routed to output mode perm_vector[i]
\* (the vector holds 0-based modes; TLA+ position i+1 holds entry i)
PERM(perm_vector) ==
    [obj |-> "fresh", kind |-> "PERM", m |-> Len(perm_vector), perm |-> perm_vector]

\* a PERM object made by the caller
UserPERM == [PERM(<<1, 0>>) EXCEPT !.obj = "perm"]

\* an object that has a copy method and is neither a Processor nor an
\* AComponent
NotAComponent == [obj |-> "other", kind |-> "Other", m |-> 1, perm |-> <<>>]

\* an object without a copy method (an int, a str, None)
NoCopyObject == [obj |-> "int", kind |-> "NoCopy", m |-> 1, perm |-> <<>>]

(* ------------------------- optional values ----------------------------- *)
None == [none |-> TRUE, v |-> 0]

Some(x) == [none |-> FALSE, v |-> x]

(* ----------------------------- state ----------------------------------- *)
VARIABLES
    n_moi,                  \* Processor._n_moi
    n_heralds,              \* Processor._n_heralds
    components,             \* Processor._components: sequence of [r, c]
    in_ports,               \* Processor._in_ports: ordered dict, [port, range]
    out_ports,              \* Processor._out_ports
    post_select,            \* Processor._post_select
    min_mode_post_select,   \* Processor._min_mode_post_select
    anon_herald_num,        \* Processor._anon_herald_num
    inputs_map,             \* Processor._inputs_map
    simulator,              \* Processor._simulator
    source,                 \* Processor._source
    backend_name,           \* Processor._backend_name
    min_p,                  \* global_params['min_p'], as <<numerator, denominator>>
    call,                   \* the locals of the samples call in progress
    last,                   \* the last public call and how it ended
    hist,                   \* history: which calls were ever made
    other,                  \* the second Processor object once copy() has run
    parameters              \* Processor._parameters['mode_post_select'], None when unset

vars == <<n_moi, n_heralds, components, in_ports, out_ports, post_select,
          min_mode_post_select, anon_herald_num, inputs_map, simulator,
          source, backend_name, min_p, call, last, hist, other, parameters>>

(* ------------------------ derived properties --------------------------- *)
\* fault: the heralded modes are left out of the size
circuit_size_mut == n_moi

\* Processor.circuit_size
circuit_size == n_moi + n_heralds

\* Processor.m
m_of_interest == n_moi

\* index of the first entry of an ordered port dict whose range holds mode,
\* 0 when there is none (get_input_port / get_output_port return None)
PortIndex(ports, mode) ==
    IF \E i \in 1..Len(ports) : mode \in Range(ports[i].range)
    THEN Min({i \in 1..Len(ports) : mode \in Range(ports[i].range)})
    ELSE 0

get_input_port(mode) == PortIndex(in_ports, mode)

get_output_port(mode) == PortIndex(out_ports, mode)

\* fault: only the first mode of the range is looked at
ModesFree_mut(inp, outp, mode_range, location) ==
    /\ (location \in {"IN_OUT", "INPUT"}) => PortIndex(inp, mode_range[1]) = 0
    /\ (location \in {"IN_OUT", "OUTPUT"}) => PortIndex(outp, mode_range[1]) = 0

\* Processor.are_modes_free, on explicit registries
ModesFree(inp, outp, mode_range, location) ==
    /\ (location \in {"IN_OUT", "INPUT"}) =>
           \A i \in 1..Len(mode_range) : PortIndex(inp, mode_range[i]) = 0
    /\ (location \in {"IN_OUT", "OUTPUT"}) =>
           \A i \in 1..Len(mode_range) : PortIndex(outp, mode_range[i]) = 0

are_modes_free(mode_range, location) ==
    ModesFree(in_ports, out_ports, mode_range, location)

\* Processor.heralds on an explicit output registry: mode -> expected value;
\* a later entry on the same mode overwrites an earlier one
HeraldsOf(outp) ==
    LET idx == {i \in 1..Len(outp) : outp[i].port.kind = "Herald"}
        modes == {outp[i].range[1] : i \in idx}
    IN [md \in modes |->
           outp[Max({i \in idx : outp[i].range[1] = md})].port.expected]

heralds == HeraldsOf(out_ports)

\* Python list index: a negative index counts from the end
PyIndexOk(i, size) == i >= -size /\ i < size

PyIndex(i, size) == IF i < 0 THEN i + size ELSE i

\* Processor._closed_photonic_modes raises IndexError when a closing output
\* port covers a mode outside the list of circuit_size flags
ClosedModesOk(outp, size) ==
    \A i \in 1..Len(outp) : is_output_photonic_mode_closed(outp[i].port) =>
        \A j \in 1..Len(outp[i].range) : PyIndexOk(outp[i].range[j], size)

ClosedModes(outp, size) ==
    UNION {{PyIndex(md, size) : md \in Range(outp[i].range)} :
        i \in {k \in 1..Len(outp) : is_output_photonic_mode_closed(outp[k].port)}}

\* Processor.is_mode_connectible (only evaluated when ClosedModesOk holds)
is_mode_connectible(mode) ==
    IF mode < 0 THEN FALSE
    ELSE IF mode >= circuit_size THEN FALSE
    ELSE mode \notin ClosedModes(out_ports, circuit_size)

(* --------------------------- dict update ------------------------------- *)
\* ports[port] = port_range on an ordered dict keyed by object identity: an
\* object already present keeps its position and gets the new range
DictSet(ports, port, port_range) ==
    IF port.obj # "fresh" /\ \E i \in 1..Len(ports) : ports[i].port.obj = port.obj
    THEN [i \in 1..Len(ports) |->
             IF ports[i].port.obj = port.obj
             THEN [port |-> port, range |-> port_range] ELSE ports[i]]
    ELSE Append(ports, [port |-> port, range |-> port_range])

\* the value of a call that returned nothing, or raised.  results,
\* physical_perf, logical_perf are the returned dict (ratios as <<num, den>>,
\* has_logical tells whether the 'logical_perf' key is present); the other
\* fields record the locals the result was computed from (accepted: the
\* output states samples accepted; kept: those probs accepted).
NoResult == [results |-> <<>>, physical_perf |-> <<0, 1>>,
             logical_perf |-> <<0, 1>>, has_logical |-> FALSE,
             count |-> 0, accepted |-> <<>>, not_selected |-> 0,
             not_selected_physical |-> 0, all_p |-> 0, kept |-> {}]

Outcome(op, err) == [op |-> op, err |-> err, res |-> NoResult]

Returned(op, res) == [op |-> op, err |-> "ok", res |-> res]

\* no samples or probs call is running.  draws counts the passes through
\* the loop of samples (history: the code keeps no such counter, idx wraps
\* at count); todo holds the input states the loop of probs has yet to take
Idle == [pc |-> "idle", count |-> 0, output |-> <<>>, accepted |-> <<>>,
         not_selected_physical |-> 0, not_selected |-> 0, idx |-> 0,
         draws |-> 0, progress_callback |-> "None", reports |-> <<>>,
         todo |-> {}]

\* the progress_callback given to samples or probs: None, a function that
\* takes the value it is given (reports lists these values, history), or a
\* function that raises
Callbacks == {"None", "reports", "raises"}

\* the end of an iteration of the loop of samples that did not leave by
\* continue: progress_callback(len(output) / count, "sampling") when a
\* callback was given; after is the record of locals at that point
ProgressCall(after) ==
    IF after.progress_callback = "None"
    THEN [err |-> "ok", locals |-> after]
    ELSE IF after.progress_callback = "raises"
    THEN [err |-> "CallbackError", locals |-> after]
    ELSE [err |-> "ok",
          locals |-> [after EXCEPT
                        !.reports = Append(@, <<Len(after.output), after.count>>)]]

\* the number of entries of a port registry that are not heralds
UserEntries(ports) == Cardinality({i \in 1..Len(ports) : ports[i].port.kind # "Herald"})

\* what the bound MaxSize limits: the heralds, components and user ports,
\* and the settings changed since construction (an input given, a predicate
\* given, a source other than the constructor's)
StructureSize ==
    n_heralds + Len(components) + UserEntries(in_ports) + UserEntries(out_ports)
    + (IF hist.with_input_called THEN 1 ELSE 0)
    + (IF hist.postprocess_set THEN 1 ELSE 0)
    + (IF source # "perfect" THEN 1 ELSE 0)

(* ------------------------------ Init ----------------------------------- *)
Sources == {"perfect", "lossy"}

\* a linear circuit of m modes handed to the constructor
Circuit(m) == [obj |-> "circuit", kind |-> "Circuit", m |-> m, perm |-> <<>>]

\* fault: the copy of a component is the component itself
ComponentCopy_mut(component) == component

\* AComponent.copy(): "deep-copies the incoming component" (section 4.2),
\* a new object with the same content
ComponentCopy(component) == [component EXCEPT !.obj = "fresh"]

(* ------------------------------ copy ----------------------------------- *)
\* the attributes of the Processor the calls are made on
SelfProcessor ==
    [kind |-> "Processor", m |-> n_moi, n_moi |-> n_moi, n_heralds |-> n_heralds,
     components |-> components, in_ports |-> in_ports, out_ports |-> out_ports,
     post_select |-> post_select, min_mode_post_select |-> min_mode_post_select,
     anon_herald_num |-> anon_herald_num, inputs_map |-> inputs_map,
     simulator |-> simulator, source |-> source, backend_name |-> backend_name,
     parameters |-> parameters]

\* copy.deepcopy(self): every attribute is a new object with the same value,
\* the predicate, a function, is the same function
deepcopy(proc) ==
    LET new_proc == IF "obj" \in DOMAIN proc THEN [proc EXCEPT !.obj = "fresh"]
                    ELSE proc
    IN [new_proc EXCEPT
           !.components = [i \in 1..Len(@) |-> [@[i] EXCEPT !.c.obj = "fresh"]],
           !.in_ports = [i \in 1..Len(@) |-> [@[i] EXCEPT !.port.obj = "fresh"]],
           !.out_ports = [i \in 1..Len(@) |-> [@[i] EXCEPT !.port.obj = "fresh"]]]

\* fault: copy.copy(self) in place of copy.deepcopy(self); the two objects
\* hold the same two port registries
copy_mut(proc) ==
    [proc |-> [proc EXCEPT
                 !.components = [i \in 1..Len(@) |->
                     [r |-> @[i].r, c |-> ComponentCopy(@[i].c)]]],
     shared |-> {"in_ports", "out_ports"}]

\* Processor.copy(subs = None): a deep copy whose component list is built
\* anew from the original's mode lists and copies of its components; proc
\* is the new object, shared names the containers both objects refer to and
\* that calls write in place (the mode lists are never written in place)
copy(proc) ==
    LET new_proc == deepcopy(proc)
    IN [proc |-> [new_proc EXCEPT
                    !.components = [i \in 1..Len(@) |->
                        [r |-> proc.components[i].r,
                         c |-> ComponentCopy(proc.components[i].c)]]],
        shared |-> {}]

\* fault: add keeps the caller's object
Copy_mut(component) == component

\* component = component.copy() in add: Processor.copy for a sub-processor,
\* the copy method of the component for anything else
Copy(component) ==
    IF component.kind = "Processor" THEN copy(component).proc
    ELSE ComponentCopy(component)

\* the second object after a call on the first: a registry both refer to
\* is one dict, written in place by add_port, add_herald and add
Aliased(o) ==
    IF o.shared = {} THEN o
    ELSE [o EXCEPT
            !.proc.in_ports = IF "in_ports" \in o.shared THEN in_ports' ELSE @,
            !.proc.out_ports = IF "out_ports" \in o.shared THEN out_ports' ELSE @]

\* global_params['min_p'], the process-wide cutoff read by probs, as a
\* noise floor: it lies below every probability a run of the model computes
NoiseFloor == <<1, 1000000000>>

\* Processor.__init__(backend_name, m_circuit, source): m_circuit is a mode
\* count, or a circuit that the constructor adds at mode 0; cutoffs are the
\* values global_params['min_p'] may have been given.  There is one
\* Processor object and no other (role "none").
InitWith(cutoffs) ==
    /\ min_p \in cutoffs
    /\ backend_name \in {"SLOS", "CliffordClifford2017"}
    /\ source = "perfect"
    /\ n_moi = MaxMoi
    /\ n_heralds = 0
    /\ components \in {<<>>, <<[r |-> PyRange(0, n_moi), c |-> Copy(Circuit(n_moi))]>>}
    /\ in_ports = <<>>
    /\ out_ports = <<>>
    /\ post_select = NoPredicate
    /\ min_mode_post_select = None
    /\ anon_herald_num = 0
    /\ inputs_map = None
    /\ simulator = None
    /\ call = Idle
    /\ last = Outcome("init", "ok")
    /\ hist = [postprocess_set |-> FALSE, with_input_called |-> FALSE]
    /\ other = [role |-> "none", shared |-> {}, proc |-> <<>>, calls |-> 0]
    /\ parameters = None

Init == InitWith({NoiseFloor})

(* ------------------------- set_postprocess ----------------------------- *)
\* Processor.set_postprocess(postprocess_func); the argument may be None
set_postprocess(postprocess_func) ==
    /\ post_select' = postprocess_func
    /\ last' = Outcome("set_postprocess", "ok")
    /\ hist' = [hist EXCEPT !.postprocess_set = @ \/ postprocess_func # NoPredicate]
    /\ UNCHANGED <<n_moi, n_heralds, components, in_ports, out_ports,
                   min_mode_post_select, anon_herald_num, inputs_map,
                   simulator, source, backend_name, min_p>>

(* ---------------------------- add_herald ------------------------------- *)
\* fault: the herald is registered on the output side only
AddHeraldTo_mut(inp, outp, anon, mode, expected, name) ==
    IF ~ModesFree(inp, outp, <<mode>>, "IN_OUT")
    THEN [err |-> "UnavailableModeException", inp |-> inp, outp |-> outp,
          anon |-> anon]
    ELSE LET nm == IF name = NoName THEN AnonName(anon) ELSE name
             anon2 == IF name = NoName THEN anon + 1 ELSE anon
         IN IF ~HeraldValueOk(expected)
            THEN [err |-> "AssertionError", inp |-> inp, outp |-> outp,
                  anon |-> anon2]
            ELSE [err |-> "ok", inp |-> inp,
                  outp |-> Append(outp, [port |-> Herald(expected, nm),
                                         range |-> <<mode>>]),
                  anon |-> anon2]

\* Processor._add_herald on explicit registries: the result of the call as
\* [err, inp, outp, anon]
AddHeraldTo(inp, outp, anon, mode, expected, name) ==
    IF ~ModesFree(inp, outp, <<mode>>, "IN_OUT")
    THEN [err |-> "UnavailableModeException", inp |-> inp, outp |-> outp,
          anon |-> anon]
    ELSE LET nm == IF name = NoName THEN AnonName(anon) ELSE name
             anon2 == IF name = NoName THEN anon + 1 ELSE anon
         IN IF ~HeraldValueOk(expected)
            THEN [err |-> "AssertionError", inp |-> inp, outp |-> outp,
                  anon |-> anon2]
            ELSE [err |-> "ok",
                  inp |-> Append(inp, [port |-> Herald(expected, nm),
                                       range |-> <<mode>>]),
                  outp |-> Append(outp, [port |-> Herald(expected, nm),
                                         range |-> <<mode>>]),
                  anon |-> anon2]

\* fault: the herald is registered and counted, n_moi is left as it was
add_herald_mut(mode, expected, name) ==
    /\ n_heralds' = n_heralds + 1
    /\ LET res == AddHeraldTo(in_ports, out_ports, anon_herald_num,
                              mode, expected, name)
       IN /\ in_ports' = res.inp
          /\ out_ports' = res.outp
          /\ anon_herald_num' = res.anon
          /\ last' = Outcome("add_herald", res.err)
    /\ UNCHANGED <<n_moi, components, post_select, min_mode_post_select,
                   inputs_map, simulator, source, backend_name, min_p, hist>>

\* Processor.add_herald(mode, expected, name): the counters are updated
\* before _add_herald checks the mode
add_herald(mode, expected, name) ==
    /\ n_moi' = n_moi - 1
    /\ n_heralds' = n_heralds + 1
    /\ LET res == AddHeraldTo(in_ports, out_ports, anon_herald_num,
                              mode, expected, name)
       IN /\ in_ports' = res.inp
          /\ out_ports' = res.outp
          /\ anon_herald_num' = res.anon
          /\ last' = Outcome("add_herald", res.err)
    /\ UNCHANGED <<components, post_select, min_mode_post_select, inputs_map,
                   simulator, source, backend_name, min_p, hist>>

(* ----------------------------- add_port -------------------------------- *)
\* fault: each location is refused when either registry holds a port there
AddPortTo_mut(inp, outp, m, port, location) ==
    LET port_range == PyRange(m, m + port.m)
    IN IF ~supports_location(port, location)
       THEN [err |-> "AssertionError", inp |-> inp, outp |-> outp]
       ELSE IF location \in {"IN_OUT", "INPUT"}
               /\ ~ModesFree(inp, outp, port_range, "IN_OUT")
       THEN [err |-> "UnavailableModeException", inp |-> inp, outp |-> outp]
       ELSE LET inp2 == IF location \in {"IN_OUT", "INPUT"}
                        THEN DictSet(inp, port, port_range) ELSE inp
            IN IF location \in {"IN_OUT", "OUTPUT"}
                  /\ ~ModesFree(inp2, outp, port_range, "IN_OUT")
               THEN [err |-> "UnavailableModeException", inp |-> inp2,
                     outp |-> outp]
               ELSE [err |-> "ok", inp |-> inp2,
                     outp |-> IF location \in {"IN_OUT", "OUTPUT"}
                              THEN DictSet(outp, port, port_range) ELSE outp]

\* Processor.add_port on explicit registries: [err, inp, outp]
AddPortTo(inp, outp, m, port, location) ==
    LET port_range == PyRange(m, m + port.m)
    IN IF ~supports_location(port, location)
       THEN [err |-> "AssertionError", inp |-> inp, outp |-> outp]
       ELSE IF location \in {"IN_OUT", "INPUT"}
               /\ ~ModesFree(inp, outp, port_range, "INPUT")
       THEN [err |-> "UnavailableModeException", inp |-> inp, outp |-> outp]
       ELSE LET inp2 == IF location \in {"IN_OUT", "INPUT"}
                        THEN DictSet(inp, port, port_range) ELSE inp
            IN IF location \in {"IN_OUT", "OUTPUT"}
                  /\ ~ModesFree(inp2, outp, port_range, "OUTPUT")
               THEN [err |-> "UnavailableModeException", inp |-> inp2,
                     outp |-> outp]
               ELSE [err |-> "ok", inp |-> inp2,
                     outp |-> IF location \in {"IN_OUT", "OUTPUT"}
                              THEN DictSet(outp, port, port_range) ELSE outp]

\* Processor.add_port(m, port, location)
add_port(m, port, location) ==
    /\ LET res == AddPortTo(in_ports, out_ports, m, port, location)
       IN /\ in_ports' = res.inp
          /\ out_ports' = res.outp
          /\ last' = Outcome("add_port", res.err)
    /\ UNCHANGED <<n_moi, n_heralds, components, post_select,
                   min_mode_post_select, anon_herald_num, inputs_map,
                   simulator, source, backend_name, min_p, hist>>

(* ---------------------- mode connector (section 4.1) ------------------- *)
\* how the connectibility check of one parent mode ends
ModeCheck(mode) ==
    IF mode < 0 \/ mode >= circuit_size THEN "UnavailableModeException"
    ELSE IF ~ClosedModesOk(out_ports, circuit_size) THEN "IndexError"
    ELSE IF ~is_mode_connectible(mode) THEN "UnavailableModeException"
    ELSE "ok"

\* ModeConnector.resolve: keys are the requested parent modes (an int start
\* b stands for b, b+1, ...), r_list the modes of the right-hand object that
\* get connected, in order.  The mapping is parent mode -> child mode.
Resolve(keys, r_list) ==
    LET bad == {i \in 1..Len(keys) : ModeCheck(keys[i]) # "ok"}
    IN IF bad # {}
       THEN [err |-> ModeCheck(keys[Min(bad)]), map |-> <<>>]
       ELSE [err |-> "ok",
             map |-> [k \in Range(keys) |->
                         r_list[CHOOSE i \in 1..Len(keys) : keys[i] = k]]]

\* ModeConnector.add_heralded_modes(mode_mapping): the mapping with the
\* "new heralded ancilla modes the child introduces beyond the explicit
\* mapping" (section 4.1), whose count the method returns.  The caller adds
\* that count to n_heralds and leaves n_moi alone, so circuit_size grows by
\* it, and reads the parent mode of each herald of the child from the
\* mapping: every herald mode of the child is mapped from a new parent
\* mode, size, size + 1, ... in the order of the child's heralds
AddHeraldedModes(mapping, child_herald_modes, size) ==
    [k \in (DOMAIN mapping) \cup {size + i - 1 : i \in 1..Len(child_herald_modes)} |->
        IF k \in DOMAIN mapping THEN mapping[k]
        ELSE child_herald_modes[k - size + 1]]

\* the j-th smallest element of S, j counted from 0
NthOf(S, j) == CHOOSE v \in S : Cardinality({u \in S : u < v}) = j

\* ModeConnector.generate_permutation: the vector over the parent range
\* min..max of the mapping; a parent mode absent from the mapping takes the
\* next unused index
PermVector(mapping) ==
    LET K == DOMAIN mapping
        lo == Min(K)
        size == Max(K) - lo + 1
        missing == {q \in 0..(size - 1) : (lo + q) \notin K}
        unused == (0..(size - 1)) \ {mapping[k] : k \in K}
    IN [i \in 1..size |->
           IF (lo + i - 1) \in K THEN mapping[lo + i - 1]
           ELSE NthOf(unused, Cardinality({q \in missing : q < i - 1}))]

IsIdentity(vect) == \A i \in 1..Len(vect) : vect[i] = i - 1

\* the mode range of the permutation of a mapping
PermModes(mapping) == PyRange(Min(DOMAIN mapping), Max(DOMAIN mapping) + 1)

\* fault: the inverse of a permutation is the permutation itself
InverseVector_mut(vect) == vect

\* PERM.inverse: the inverse permutation vector
InverseVector(vect) ==
    [i \in 1..Len(vect) |-> (CHOOSE j \in 1..Len(vect) : vect[j] = i - 1) - 1]

\* a permutation vector over range r extended by the identity to lo..hi
ExtendVector(r, vect, lo, hi) ==
    [i \in 1..(hi - lo + 1) |->
        LET md == lo + i - 1
        IN IF md \in Range(r) THEN vect[md - r[1] + 1] + r[1] - lo ELSE i - 1]

\* perm_compose(l_range, l_vect, r_range, r_vect): the left permutation is
\* applied first
perm_compose(l_range, l_vect, r_range, r_vect) ==
    LET lo == Min(Range(l_range) \cup Range(r_range))
        hi == Max(Range(l_range) \cup Range(r_range))
        l == ExtendVector(l_range, l_vect, lo, hi)
        r == ExtendVector(r_range, r_vect, lo, hi)
    IN [range |-> PyRange(lo, hi + 1),
        vect |-> [i \in 1..(hi - lo + 1) |-> r[l[i] + 1]]]

(* ------------------------- things given to add ------------------------- *)
PlainComponents == {BS, UserPERM}

\* Processor(2).add(0, BS)
ChildPlain ==
    [obj |-> "child", kind |-> "Processor", m |-> 2, n_moi |-> 2, n_heralds |-> 0,
     components |-> <<[r |-> <<0, 1>>, c |-> BS]>>,
     in_ports |-> <<>>, out_ports |-> <<>>, post_select |-> NoPredicate]

\* Processor(2).add(0, BS).add_herald(1, 1)
ChildHerald ==
    [obj |-> "child", kind |-> "Processor", m |-> 1, n_moi |-> 1, n_heralds |-> 1,
     components |-> <<[r |-> <<0, 1>>, c |-> BS]>>,
     in_ports |-> <<[port |-> Herald(1, AnonName(0)), range |-> <<1>>]>>,
     out_ports |-> <<[port |-> Herald(1, AnonName(0)), range |-> <<1>>]>>,
     post_select |-> NoPredicate]

\* Processor(2).add(0, BS).add_port(0, a, OUTPUT), then set_postprocess
ChildPred ==
    [obj |-> "child", kind |-> "Processor", m |-> 2, n_moi |-> 2, n_heralds |-> 0,
     components |-> <<[r |-> <<0, 1>>, c |-> BS]>>,
     in_ports |-> <<>>,
     out_ports |-> <<[port |-> PortA, range |-> <<0>>]>>,
     post_select |-> PredFirst]

\* Processor(2).add(0, BS).add_herald(0, 0, "h"), then set_postprocess
ChildHeraldPred ==
    [obj |-> "child", kind |-> "Processor", m |-> 1, n_moi |-> 1, n_heralds |-> 1,
     components |-> <<[r |-> <<0, 1>>, c |-> BS]>>,
     in_ports |-> <<[port |-> Herald(0, StrName("h")), range |-> <<0>>]>>,
     out_ports |-> <<[port |-> Herald(0, StrName("h")), range |-> <<0>>]>>,
     post_select |-> PredAny]

\* Processor(1).add(0, PS), then set_postprocess
ChildPredOne ==
    [obj |-> "child", kind |-> "Processor", m |-> 1, n_moi |-> 1, n_heralds |-> 0,
     components |-> <<[r |-> <<0>>, c |-> PS]>>,
     in_ports |-> <<>>, out_ports |-> <<>>, post_select |-> PredFirst]

ChildProcessors == {ChildPlain, ChildHerald, ChildPred, ChildHeraldPred, ChildPredOne}

(* ----------------------- the post-processed CNOT ----------------------- *)
\* _post_process(s) == (s[1] or s[2]) and (s[3] or s[4])
PredCnot == [fn |-> "cnot", layers |-> <<>>]

\* the mode mappings tried for an object of m modes: every int start up to
\* the first that runs out of the circuit, and two explicit lists for a
\* 2-mode object
Mappings(m) ==
    {PyRange(b, b + m) : b \in 0..(circuit_size - m + 1)}
    \cup (IF m = 2 THEN {<<1, 0>>, <<0, 2>>} ELSE {})

(* ------------------------------- add ----------------------------------- *)
\* Processor._add_component(mode_mapping, component)
AddComponentTo(comps, mapping, component) ==
    LET vect == PermVector(mapping)
        lo == Min(DOMAIN mapping)
        withPerm == IF IsIdentity(vect) THEN comps
                    ELSE Append(comps, [r |-> PermModes(mapping), c |-> PERM(vect)])
    IN Append(withPerm, [r |-> PyRange(lo, lo + component.m), c |-> component])

\* _compose_processor, keep_port false: for each parent mode of the mapping,
\* in order, the first output port covering it is deleted
RECURSIVE DropOutPorts(_, _, _)
DropOutPorts(outp, keys, i) ==
    IF i > Len(keys) THEN outp
    ELSE LET idx == PortIndex(outp, keys[i])
         IN DropOutPorts(IF idx = 0 THEN outp ELSE RemoveAt(outp, idx), keys, i + 1)

\* the parent mode mapped to child mode cm
ParentModeOf(mapping, cm) == CHOOSE k \in DOMAIN mapping : mapping[k] = cm

\* _compose_processor, port retrieval: the child's output ports, in order;
\* the first exception ends the loop.  st is [err, inp, outp, anon].
RECURSIVE RetrievePorts(_, _, _, _)
RetrievePorts(child_outp, i, mapping, st) ==
    IF i > Len(child_outp) \/ st.err # "ok" THEN st
    ELSE LET port == child_outp[i].port
             port_mode == ParentModeOf(mapping, child_outp[i].range[1])
         IN IF port.kind = "Herald"
            THEN RetrievePorts(child_outp, i + 1, mapping,
                     AddHeraldTo(st.inp, st.outp, st.anon, port_mode,
                                 HeraldAttributes(port).expected,
                                 HeraldAttributes(port).user_given_name))
            ELSE IF ModesFree(st.inp, st.outp,
                              PyRange(port_mode, port_mode + port.m), "OUTPUT")
            THEN LET res == AddPortTo(st.inp, st.outp, port_mode, port, "OUTPUT")
                 IN RetrievePorts(child_outp, i + 1, mapping,
                        [err |-> res.err, inp |-> res.inp, outp |-> res.outp,
                         anon |-> st.anon])
            ELSE RetrievePorts(child_outp, i + 1, mapping, st)

\* the modes of a processor that carry no herald, in increasing order
NonHeraldModes(proc) ==
    LET hs == DOMAIN HeraldsOf(proc.out_ports)
        S == (0..(proc.n_moi + proc.n_heralds - 1)) \ hs
    IN [i \in 1..Cardinality(S) |-> NthOf(S, i - 1)]

\* the herald modes of a processor, in the order of its output registry
RECURSIVE HeraldModeList(_, _)
HeraldModeList(outp, i) ==
    IF i > Len(outp) THEN <<>>
    ELSE LET rest == HeraldModeList(outp, i + 1)
             md == outp[i].range[1]
         IN IF outp[i].port.kind = "Herald"
               /\ \A j \in 1..(i - 1) :
                      ~(outp[j].port.kind = "Herald" /\ outp[j].range[1] = md)
            THEN <<md>> \o rest ELSE rest

\* the function that _compose_processor stores for a child predicate read
\* through the permutation perm placed at mode c_first: a lambda over the
\* variable processor, the object obj, whose _post_select and circuit_size
\* it reads when it is called
ComposedPredicate(child, vect, c_first) ==
    [fn |-> child.post_select.fn,
     layers |-> <<[perm |-> vect, c_first |-> c_first,
                   n |-> child.n_moi + child.n_heralds, obj |-> child.obj]>>
                \o child.post_select.layers]

\* fault: the inverse permutation is placed before the child's components
ComposeProcessor_mut(keys, mapping0, child, keep_port) ==
    LET outp1 == IF keep_port THEN out_ports ELSE DropOutPorts(out_ports, keys, 1)
        child_heralds == HeraldModeList(child.out_ports, 1)
        mapping == AddHeraldedModes(mapping0, child_heralds, circuit_size)
        n_new_heralds == Len(child_heralds)
        vect == PermVector(mapping)
        has_perm == ~IsIdentity(vect)
        perm_modes == PermModes(mapping)
        n == Len(components)
        comps1 ==
            IF ~has_perm THEN components
            ELSE IF n > 0 /\ components[n].c.kind = "PERM"
            THEN LET merged == perm_compose(components[n].r, components[n].c.perm,
                                            perm_modes, vect)
                 IN [components EXCEPT ![n] = [r |-> merged.range,
                                               c |-> PERM(merged.vect)]]
            ELSE Append(components, [r |-> perm_modes, c |-> PERM(vect)])
        lo == Min(DOMAIN mapping)
        shifted == [i \in 1..Len(child.components) |->
                       [r |-> [j \in 1..Len(child.components[i].r) |->
                                  child.components[i].r[j] + lo],
                        c |-> child.components[i].c]]
        comps2 == IF has_perm
                  THEN Append(comps1, [r |-> perm_modes,
                                       c |-> PERM(InverseVector(vect))])
                  ELSE comps1
        comps3 == comps2 \o shifted
        ports == RetrievePorts(child.out_ports, 1, mapping,
                     [err |-> "ok", inp |-> in_ports, outp |-> outp1,
                      anon |-> anon_herald_num])
        pred == IF ports.err # "ok" \/ child.post_select = NoPredicate
                THEN post_select
                ELSE IF ~has_perm THEN child.post_select
                ELSE ComposedPredicate(child, vect, perm_modes[1])
    IN [err |-> ports.err, n_heralds |-> n_heralds + n_new_heralds,
        components |-> comps3, in_ports |-> ports.inp, out_ports |-> ports.outp,
        anon |-> ports.anon, post_select |-> pred]

\* Processor._compose_processor(connector, processor, keep_port), after a
\* successful resolve: the fields of the parent when the call ends
ComposeProcessor(keys, mapping0, child, keep_port) ==
    LET outp1 == IF keep_port THEN out_ports ELSE DropOutPorts(out_ports, keys, 1)
        child_heralds == HeraldModeList(child.out_ports, 1)
        mapping == AddHeraldedModes(mapping0, child_heralds, circuit_size)
        n_new_heralds == Len(child_heralds)
        vect == PermVector(mapping)
        has_perm == ~IsIdentity(vect)
        perm_modes == PermModes(mapping)
        n == Len(components)
        comps1 ==
            IF ~has_perm THEN components
            ELSE IF n > 0 /\ components[n].c.kind = "PERM"
            THEN LET merged == perm_compose(components[n].r, components[n].c.perm,
                                            perm_modes, vect)
                 IN [components EXCEPT ![n] = [r |-> merged.range,
                                               c |-> PERM(merged.vect)]]
            ELSE Append(components, [r |-> perm_modes, c |-> PERM(vect)])
        lo == Min(DOMAIN mapping)
        shifted == [i \in 1..Len(child.components) |->
                       [r |-> [j \in 1..Len(child.components[i].r) |->
                                  child.components[i].r[j] + lo],
                        c |-> child.components[i].c]]
        comps2 == comps1 \o shifted
        comps3 == IF has_perm
                  THEN Append(comps2, [r |-> perm_modes,
                                       c |-> PERM(InverseVector(vect))])
                  ELSE comps2
        ports == RetrievePorts(child.out_ports, 1, mapping,
                     [err |-> "ok", inp |-> in_ports, outp |-> outp1,
                      anon |-> anon_herald_num])
        pred == IF ports.err # "ok" \/ child.post_select = NoPredicate
                THEN post_select
                ELSE IF ~has_perm THEN child.post_select
                ELSE ComposedPredicate(child, vect, perm_modes[1])
    IN [err |-> ports.err, n_heralds |-> n_heralds + n_new_heralds,
        components |-> comps3, in_ports |-> ports.inp, out_ports |-> ports.outp,
        anon |-> ports.anon, post_select |-> pred]

\* fault: add keeps the simulator built for the earlier component list
add_mut(keys, given, keep_port) ==
    /\ UNCHANGED <<n_moi, min_mode_post_select, inputs_map, source, backend_name, min_p, hist>>
    /\ IF post_select # NoPredicate
       THEN /\ last' = Outcome("add", "RuntimeError")
            /\ UNCHANGED <<n_heralds, components, in_ports, out_ports,
                           post_select, anon_herald_num, simulator>>
       ELSE /\ UNCHANGED simulator
            /\ LET component == Copy(given)
               IN IF given.kind = "NoCopy"
                  THEN /\ last' = Outcome("add", "AttributeError")
                       /\ UNCHANGED <<n_heralds, components, in_ports, out_ports,
                                      post_select, anon_herald_num>>
                  ELSE IF component.kind = "Other"
                  THEN /\ last' = Outcome("add", "RuntimeError")
                       /\ UNCHANGED <<n_heralds, components, in_ports, out_ports,
                                      post_select, anon_herald_num>>
                  ELSE LET r_list == IF component.kind = "Processor"
                                     THEN NonHeraldModes(component)
                                     ELSE PyRange(0, component.m)
                           res == Resolve(keys, r_list)
                       IN IF res.err # "ok"
                          THEN /\ last' = Outcome("add", res.err)
                               /\ UNCHANGED <<n_heralds, components, in_ports,
                                              out_ports, post_select,
                                              anon_herald_num>>
                          ELSE IF component.kind = "Processor"
                          THEN LET c == ComposeProcessor(keys, res.map, component,
                                                         keep_port)
                               IN /\ n_heralds' = c.n_heralds
                                  /\ components' = c.components
                                  /\ in_ports' = c.in_ports
                                  /\ out_ports' = c.out_ports
                                  /\ anon_herald_num' = c.anon
                                  /\ post_select' = c.post_select
                                  /\ last' = Outcome("add", c.err)
                          ELSE /\ components' = AddComponentTo(components, res.map,
                                                                component)
                               /\ last' = Outcome("add", "ok")
                               /\ UNCHANGED <<n_heralds, in_ports, out_ports,
                                              post_select, anon_herald_num>>

\* Processor.add(mode_mapping, component, keep_port)
add(keys, given, keep_port) ==
    /\ UNCHANGED <<n_moi, min_mode_post_select, inputs_map, source, backend_name, min_p, hist>>
    /\ IF post_select # NoPredicate
       THEN /\ last' = Outcome("add", "RuntimeError")
            /\ UNCHANGED <<n_heralds, components, in_ports, out_ports,
                           post_select, anon_herald_num, simulator>>
       ELSE /\ simulator' = None
            /\ LET component == Copy(given)
               IN IF given.kind = "NoCopy"
                  THEN /\ last' = Outcome("add", "AttributeError")
                       /\ UNCHANGED <<n_heralds, components, in_ports, out_ports,
                                      post_select, anon_herald_num>>
                  ELSE IF component.kind = "Other"
                  THEN /\ last' = Outcome("add", "RuntimeError")
                       /\ UNCHANGED <<n_heralds, components, in_ports, out_ports,
                                      post_select, anon_herald_num>>
                  ELSE LET r_list == IF component.kind = "Processor"
                                     THEN NonHeraldModes(component)
                                     ELSE PyRange(0, component.m)
                           res == Resolve(keys, r_list)
                       IN IF res.err # "ok"
                          THEN /\ last' = Outcome("add", res.err)
                               /\ UNCHANGED <<n_heralds, components, in_ports,
                                              out_ports, post_select,
                                              anon_herald_num>>
                          ELSE IF component.kind = "Processor"
                          THEN LET c == ComposeProcessor(keys, res.map, component,
                                                         keep_port)
                               IN /\ n_heralds' = c.n_heralds
                                  /\ components' = c.components
                                  /\ in_ports' = c.in_ports
                                  /\ out_ports' = c.out_ports
                                  /\ anon_herald_num' = c.anon
                                  /\ post_select' = c.post_select
                                  /\ last' = Outcome("add", c.err)
                          ELSE /\ components' = AddComponentTo(components, res.map,
                                                                component)
                               /\ last' = Outcome("add", "ok")
                               /\ UNCHANGED <<n_heralds, in_ports, out_ports,
                                              post_select, anon_herald_num>>

(* --------------------- distributions (section 6) ----------------------- *)
\* A distribution is [den, w]: state s has probability w[s] / den.
EmptyDistribution == [den |-> 1, w |-> <<>>]

\* SVDistribution(StateVector("|0>"))
Vacuum == [den |-> 1, w |-> [s \in {<<0>>} |-> 1]]

\* Source.probability_distribution(): one mode of a perfect source holds one
\* photon; a source of brightness 3/4 holds none with probability 1/4
probability_distribution(src) ==
    IF src = "perfect" THEN [den |-> 1, w |-> [s \in {<<1>>} |-> 1]]
    ELSE [den |-> 4, w |-> [s \in {<<0>>, <<1>>} |-> IF s = <<0>> THEN 1 ELSE 3]]

\* SVDistribution.__mul__ with a one-mode distribution on the right: the
\* tensor product; an empty left operand gives the right operand
DistMul(a, b) ==
    IF DOMAIN a.w = {} THEN b
    ELSE [den |-> a.den * b.den,
          w |-> [s \in {x \o y : x \in DOMAIN a.w, y \in DOMAIN b.w} |->
                    a.w[SubSeq(s, 1, Len(s) - 1)] * b.w[<<s[Len(s)]>>]]]

(* ----------------------------- with_input ------------------------------ *)
\* the loop of with_input over k = 0 .. circuit_size-1, from mode k on:
\* herald_of is self.heralds, st is [err, dist, input_idx, expected_photons]
RECURSIVE InputLoop(_, _, _, _)
InputLoop(k, input_state, herald_of, st) ==
    IF k >= circuit_size \/ st.err # "ok" THEN st
    ELSE IF k \in DOMAIN herald_of
    THEN InputLoop(k + 1, input_state, herald_of,
             IF herald_of[k] = 1
             THEN [st EXCEPT !.dist = DistMul(st.dist, probability_distribution(source)),
                             !.expected_photons = st.expected_photons + 1]
             ELSE [st EXCEPT !.dist = DistMul(st.dist, Vacuum)])
    ELSE IF st.input_idx >= Len(input_state)
    THEN [st EXCEPT !.err = "IndexError"]
    ELSE InputLoop(k + 1, input_state, herald_of,
             IF input_state[st.input_idx + 1] > 0
             THEN [st EXCEPT !.dist = DistMul(st.dist, probability_distribution(source)),
                             !.expected_photons = st.expected_photons + 1,
                             !.input_idx = st.input_idx + 1]
             ELSE [st EXCEPT !.dist = DistMul(st.dist, Vacuum),
                             !.input_idx = st.input_idx + 1])

\* fault: the photons of the heralds are left out of expected_photons
WithInputResult_mut(input_state) ==
    LET st0 == [err |-> "ok", dist |-> EmptyDistribution,
                input_idx |-> 0, expected_photons |-> 0]
    IN IF Len(input_state) # m_of_interest
       THEN [st0 EXCEPT !.err = "AssertionError"]
       ELSE LET st == InputLoop(0, input_state, heralds, st0)
            IN [st EXCEPT !.expected_photons =
                   Cardinality({i \in 1..Len(input_state) : input_state[i] > 0})]

\* the body of with_input: the length assertion, then the loop; the result
\* is [err, dist, input_idx, expected_photons]
WithInputResult(input_state) ==
    LET st0 == [err |-> "ok", dist |-> EmptyDistribution,
                input_idx |-> 0, expected_photons |-> 0]
    IN IF Len(input_state) # m_of_interest
       THEN [st0 EXCEPT !.err = "AssertionError"]
       ELSE InputLoop(0, input_state, heralds, st0)

\* fault: the value derived from the input replaces a configured one
with_input_mut(input_state) ==
    /\ LET st == WithInputResult(input_state)
       IN /\ inputs_map' = Some(st.dist)
          /\ last' = Outcome("with_input", st.err)
          /\ min_mode_post_select' =
                 IF st.err = "ok" THEN Some(st.expected_photons)
                 ELSE min_mode_post_select
    /\ hist' = [hist EXCEPT !.with_input_called = TRUE]
    /\ UNCHANGED <<n_moi, n_heralds, components, in_ports, out_ports,
                   post_select, anon_herald_num, simulator, source,
                   backend_name, min_p>>

\* Processor.with_input(input_state): the cached distribution is replaced
\* by an empty one before the length is checked; at the end a configured
\* mode_post_select takes the place of the derived photon count
with_input(input_state) ==
    /\ LET st == WithInputResult(input_state)
       IN /\ inputs_map' = Some(st.dist)
          /\ last' = Outcome("with_input", st.err)
          /\ min_mode_post_select' =
                 IF st.err # "ok" THEN min_mode_post_select
                 ELSE IF ~parameters.none THEN Some(parameters.v)
                 ELSE Some(st.expected_photons)
    /\ hist' = [hist EXCEPT !.with_input_called = TRUE]
    /\ UNCHANGED <<n_moi, n_heralds, components, in_ports, out_ports,
                   post_select, anon_herald_num, simulator, source,
                   backend_name, min_p>>

\* Processor.mode_post_selection(n): the base class stores n under the key
\* mode_post_select of the parameter map, then n is the selection threshold
mode_post_selection(n) ==
    /\ parameters' = Some(n)
    /\ min_mode_post_select' = Some(n)
    /\ last' = Outcome("mode_post_selection", "ok")
    /\ UNCHANGED <<n_moi, n_heralds, components, in_ports, out_ports,
                   post_select, anon_herald_num, inputs_map, simulator,
                   source, backend_name, min_p, hist>>

\* fault: the source setter keeps the cached input distribution
set_source_mut(src) ==
    /\ source' = src
    /\ last' = Outcome("source", "ok")
    /\ UNCHANGED <<n_moi, n_heralds, components, in_ports, out_ports,
                   post_select, min_mode_post_select, anon_herald_num,
                   inputs_map, simulator, backend_name, min_p, hist>>

\* the source setter: the cached input distribution is dropped
set_source(src) ==
    /\ source' = src
    /\ inputs_map' = None
    /\ last' = Outcome("source", "ok")
    /\ UNCHANGED <<n_moi, n_heralds, components, in_ports, out_ports,
                   post_select, min_mode_post_select, anon_herald_num,
                   simulator, backend_name, min_p, hist>>

(* ------------------------ Fock states, backend ------------------------- *)
RECURSIVE SumSeq(_, _)
SumSeq(s, i) == IF i > Len(s) THEN 0 ELSE s[i] + SumSeq(s, i + 1)

\* BasicState.n: the total photon number
PhotonCount(s) == SumSeq(s, 1)

\* every Fock state of size modes holding n photons
AllStates(size, n) == {s \in [1..size -> 0..n] : PhotonCount(s) = n}

\* a PERM over the mode range r routes the photons of mode r[1]+i to mode
\* r[1]+perm[i]
Route(r, perm, s) ==
    [md \in 1..Len(s) |->
        IF (md - 1) \in Range(r)
        THEN s[r[1] + (CHOOSE i \in 1..Len(perm) : perm[i] = md - 1 - r[1])]
        ELSE s[md]]

\* the output states one component can produce from s: a permutation routes
\* the modes, a phase shifter leaves the photon numbers alone, any other
\* linear component spreads the photons of its modes over its modes
ComponentOutputs(entry, s) ==
    IF entry.c.kind = "PERM" THEN {Route(entry.r, entry.c.perm, s)}
    ELSE IF entry.c.kind = "PS" THEN {s}
    ELSE LET inside == {md \in 1..Len(s) : (md - 1) \in Range(entry.r)}
             at == [j \in 1..Cardinality(inside) |-> NthOf(inside, j - 1)]
             k == PhotonCount([j \in DOMAIN at |-> s[at[j]]])
             spread == {g \in [inside -> 0..k] :
                           PhotonCount([j \in DOMAIN at |-> g[at[j]]]) = k}
         IN {[md \in 1..Len(s) |-> IF md \in inside THEN g[md] ELSE s[md]] :
                g \in spread}

RECURSIVE CircuitOutputs(_, _, _)
CircuitOutputs(circuit, i, S) ==
    IF i > Len(circuit) THEN S
    ELSE CircuitOutputs(circuit, i + 1,
             UNION {ComponentOutputs(circuit[i], s) : s \in S})

\* the output states of non-zero probability of a simulator built from a
\* circuit, for the input s; the backend gives each the same probability
BackendSupport(sim, s) == CircuitOutputs(sim.circuit, 1, {s})

\* Processor._setup_simulator: the backend gets linear_circuit(), the
\* component list laid out on circuit_size modes
BuiltSimulator == Some([circuit |-> components, size |-> circuit_size])

\* BACKEND_LIST[name].preferred_command() mapped by available_sampling_method
available_sampling_method ==
    IF backend_name = "CliffordClifford2017" THEN "samples" ELSE "probs"

(* ---------------------------- selection -------------------------------- *)
\* Processor._state_preselected_physical
state_preselected_physical(input_state) ==
    PhotonCount(input_state) >= min_mode_post_select.v

\* Processor._state_selected_physical
state_selected_physical(output_state) ==
    Cardinality({i \in 1..Len(output_state) : output_state[i] > 0})
        >= min_mode_post_select.v

\* Python's s[a] or s[b]: s[b] is read only when s[a] is 0
PyOr(s, a, b) ==
    IF a >= Len(s) THEN "IndexError"
    ELSE IF s[a + 1] > 0 THEN "true"
    ELSE IF b >= Len(s) THEN "IndexError"
    ELSE IF s[b + 1] > 0 THEN "true" ELSE "false"

\* the user's functions: "first" reads s[0], "any" asks for a photon
\* anywhere, "cnot" is _post_process of the post-processed CNOT
ApplyFn(fn, s) ==
    IF fn = "first"
    THEN (IF Len(s) = 0 THEN "IndexError" ELSE IF s[1] > 0 THEN "true" ELSE "false")
    ELSE IF fn = "cnot"
    THEN (IF PyOr(s, 1, 2) # "true" THEN PyOr(s, 1, 2) ELSE PyOr(s, 3, 4))
    ELSE IF \E i \in 1..Len(s) : s[i] > 0 THEN "true" ELSE "false"

\* position of child mode ii in a permutation vector (perm.index(ii))
PermIndex(perm, ii) == (CHOOSE j \in 1..Len(perm) : perm[j] = ii) - 1

\* calling a post-selection function on a state: "true", "false" or the
\* exception raised
RECURSIVE ApplyLayers(_, _, _, _)
ApplyLayers(fn, layers, i, s) ==
    IF i > Len(layers) THEN ApplyFn(fn, s)
    ELSE LET l == layers[i]
         IN IF \E ii \in 0..(l.n - 1) : PermIndex(l.perm, ii) + l.c_first >= Len(s)
            THEN "IndexError"
            ELSE ApplyLayers(fn, layers, i + 1,
                     [k \in 1..l.n |-> s[PermIndex(l.perm, k - 1) + l.c_first + 1]])

ApplyPredicate(pred, s) == ApplyLayers(pred.fn, pred.layers, 1, s)

\* Processor._state_selected: "true", "false" or the exception raised; the
\* heralds are checked first, in the order of the heralds dict
RECURSIVE HeraldsMatch(_, _, _)
HeraldsMatch(hmodes, i, state) ==
    IF i > Len(hmodes) THEN "true"
    ELSE IF hmodes[i] >= Len(state) \/ hmodes[i] < 0 THEN "IndexError"
    ELSE IF state[hmodes[i] + 1] # heralds[hmodes[i]] THEN "false"
    ELSE HeraldsMatch(hmodes, i + 1, state)

\* fault: with a predicate set, the heralds are not looked at
state_selected_mut(state) ==
    IF post_select # NoPredicate THEN ApplyPredicate(post_select, state)
    ELSE HeraldsMatch(HeraldModeList(out_ports, 1), 1, state)

state_selected(state) ==
    LET h == HeraldsMatch(HeraldModeList(out_ports, 1), 1, state)
    IN IF h # "true" THEN h
       ELSE IF post_select # NoPredicate THEN ApplyPredicate(post_select, state)
       ELSE "true"

\* fault: the heralds are never removed
filter_herald_keeps(s, keep_herald) == s

\* Processor.filter_herald(s, keep_herald)
filter_herald(s, keep_herald) ==
    LET herald_modes == DOMAIN heralds
    IN IF herald_modes = {} \/ keep_herald THEN s
       ELSE LET keep == {i \in 1..Len(s) : (i - 1) \notin herald_modes}
            IN [j \in 1..Cardinality(keep) |-> s[NthOf(keep, j - 1)]]

\* fault: the input is checked, the method is not
InitCommandError_mut(command_name) ==
    IF inputs_map.none THEN "AssertionError: Input is missing"
    ELSE "ok"

\* Processor._init_command(command_name): the error raised, or "ok"
InitCommandError(command_name) ==
    IF inputs_map.none THEN "AssertionError: Input is missing"
    ELSE IF available_sampling_method # command_name
    THEN "AssertionError: Cannot call"
    ELSE "ok"

(* ------------------------------ samples -------------------------------- *)
\* Processor.samples(count), up to the loop: _init_command, the locals, and
\* the first batch of inputs drawn from the cached distribution
samples_begin(count, progress_callback) ==
    /\ call = Idle
    /\ UNCHANGED <<n_moi, n_heralds, components, in_ports, out_ports,
                   post_select, min_mode_post_select, anon_herald_num,
                   inputs_map, source, backend_name, min_p, hist, other, parameters>>
    /\ IF InitCommandError("samples") # "ok"
       THEN /\ last' = Outcome("samples", InitCommandError("samples"))
            /\ UNCHANGED <<simulator, call>>
       ELSE /\ simulator' = IF simulator.none THEN BuiltSimulator ELSE simulator
            /\ IF DOMAIN inputs_map.v.w = {} /\ count > 0
               THEN /\ last' = Outcome("samples", "ValueError")
                    /\ UNCHANGED call
               ELSE /\ call' = [Idle EXCEPT !.pc = "samples", !.count = count,
                                            !.progress_callback = progress_callback]
                    /\ last' = Outcome("samples", "running")

\* fault: a state that passes the physical selection is always accepted
Classify_mut(selected_input, sampled_state) ==
    IF min_mode_post_select.none THEN "TypeError"
    ELSE IF ~state_preselected_physical(selected_input) THEN "not_selected_physical"
    ELSE IF Len(selected_input) # simulator.v.size THEN "BackendError"
    ELSE IF ~state_selected_physical(sampled_state) THEN "not_selected_physical"
    ELSE "accepted"

\* how one iteration of the loop of samples ends for the drawn input and
\* the state the backend sampled: "accepted", "not_selected",
\* "not_selected_physical", or the exception raised
Classify(selected_input, sampled_state) ==
    IF min_mode_post_select.none THEN "TypeError"
    ELSE IF ~state_preselected_physical(selected_input) THEN "not_selected_physical"
    ELSE IF Len(selected_input) # simulator.v.size THEN "BackendError"
    ELSE IF ~state_selected_physical(sampled_state) THEN "not_selected_physical"
    ELSE LET sel == state_selected(sampled_state)
         IN IF sel = "true" THEN "accepted"
            ELSE IF sel = "false" THEN "not_selected"
            ELSE sel

\* the states the backend may return for an input (the input itself stands
\* for "not sampled" when the backend is not reached)
SampledStates(selected_input) ==
    IF Len(selected_input) # simulator.v.size THEN {selected_input}
    ELSE BackendSupport(simulator.v, selected_input)

\* one iteration of the while loop of samples
samples_step(selected_input, sampled_state) ==
    /\ call.pc = "samples"
    /\ Len(call.output) < call.count
    /\ LET idx1 == call.idx + 1
           idx2 == IF idx1 = call.count THEN 0 ELSE idx1
           how == Classify(selected_input, sampled_state)
       IN IF how \in {"accepted", "not_selected"}
          THEN LET after ==
                       IF how = "accepted"
                       THEN [call EXCEPT !.idx = idx2, !.draws = @ + 1,
                                   !.output = Append(@, filter_herald(sampled_state, FALSE)),
                                   !.accepted = Append(@, sampled_state)]
                       ELSE [call EXCEPT !.idx = idx2, !.draws = @ + 1,
                                   !.not_selected = @ + 1]
                   told == ProgressCall(after)
               IN IF told.err = "ok"
                  THEN call' = told.locals /\ UNCHANGED last
                  ELSE call' = Idle /\ last' = Outcome("samples", told.err)
          ELSE IF how = "not_selected_physical"
          THEN /\ call' = [call EXCEPT !.idx = idx2, !.draws = @ + 1,
                               !.not_selected_physical = @ + 1]
               /\ UNCHANGED last
          ELSE /\ call' = Idle
               /\ last' = Outcome("samples", how)
    /\ UNCHANGED <<n_moi, n_heralds, components, in_ports, out_ports,
                   post_select, min_mode_post_select, anon_herald_num,
                   inputs_map, simulator, source, backend_name, min_p, hist, other, parameters>>

\* the end of samples: the two ratios, then the result
samples_return ==
    /\ call.pc = "samples"
    /\ Len(call.output) >= call.count
    /\ call' = Idle
    /\ LET count == call.count
           not_selected == call.not_selected
           not_selected_physical == call.not_selected_physical
       IN IF count + not_selected + not_selected_physical = 0
             \/ count + not_selected = 0
          THEN last' = Outcome("samples", "ZeroDivisionError")
          ELSE last' = Returned("samples",
                   [results |-> call.output,
                    physical_perf |-> <<count + not_selected,
                                        count + not_selected + not_selected_physical>>,
                    logical_perf |-> <<count, count + not_selected>>,
                    has_logical |-> TRUE,
                    count |-> count, accepted |-> call.accepted,
                    not_selected |-> not_selected,
                    not_selected_physical |-> not_selected_physical,
                    all_p |-> 0, kept |-> {}])
    /\ UNCHANGED <<n_moi, n_heralds, components, in_ports, out_ports,
                   post_select, min_mode_post_select, anon_herald_num,
                   inputs_map, simulator, source, backend_name, min_p, hist, other, parameters>>

(* ------------------------------- probs --------------------------------- *)
RECURSIVE GCD(_, _)
GCD(a, b) == IF b = 0 THEN a ELSE GCD(b, a % b)

RECURSIVE LCMOf(_)
LCMOf(S) ==
    IF S = {} THEN 1
    ELSE LET x == CHOOSE x \in S : TRUE
             rest == LCMOf(S \ {x})
         IN (x * rest) \div GCD(x, rest)

\* the sum of the v fields of a set of records
RECURSIVE SumV(_)
SumV(S) ==
    IF S = {} THEN 0
    ELSE LET x == CHOOSE x \in S : TRUE IN x.v + SumV(S \ {x})

\* the 52 quotient bits after the leading one of a float division with
\* divisor b, from the remainder rem: the remainder left and the last bit
RECURSIVE LongDivision(_, _, _, _)
LongDivision(rem, b, i, bit) ==
    IF i = 52 THEN [rem |-> rem, bit |-> bit]
    ELSE IF 2 * rem >= b THEN LongDivision(2 * rem - b, b, i + 1, 1)
    ELSE LongDivision(2 * rem, b, i + 1, 0)

\* output[k] /= all_p, a division of Python floats (IEEE 754 binary64, the
\* quotient rounded to 53 significant bits, a tie to the even one), for two
\* floats that are exactly a and b units, 0 < a <= b.  The float stored is
\*     a / b - rem / (b * 2^(52 + shift)),
\* shift the number of leading zero bits of the quotient a / b
FloatDiv(a, b) ==
    LET shift == CHOOSE j \in 0..30 :
                     a * 2^j >= b /\ (j = 0 \/ a * 2^(j - 1) < b)
        d == LongDivision(a * 2^shift - b, b, 0, 1)
        up == 2 * d.rem > b \/ (2 * d.rem = b /\ d.bit = 1)
    IN [shift |-> shift, rem |-> IF up THEN d.rem - b ELSE d.rem]

\* x < global_params['min_p'] for the probability x = num / den, den > 0:
\* num * min_p[2] < min_p[1] * den, computed without the large product
BelowMinP(num, den) ==
    LET scaled == min_p[1] * den
        bound == (scaled \div min_p[2]) + (IF scaled % min_p[2] = 0 THEN 0 ELSE 1)
    IN num < bound

\* simulator.allstateprob_iterator(input_state): every output state with
\* the photon number of the input, with its probability p over the number
\* of states in the support
allstateprob_iterator(sim, s) ==
    LET support == BackendSupport(sim, s)
    IN {[o |-> o, p |-> IF o \in support THEN 1 ELSE 0] :
           o \in AllStates(sim.size, PhotonCount(s))}

\* the common denominator of the model's output_prob values is
\* inputs_map.den * ProbsScale
ProbsScale(sim) ==
    LCMOf({Cardinality(BackendSupport(sim, s)) : s \in DOMAIN inputs_map.v.w})

\* fault: the cutoff is applied to output_prob = p * input_prob
Contributions_weighted(sim) ==
    LET scale == ProbsScale(sim)
        from(s) ==
            LET its == allstateprob_iterator(sim, s)
                n == Cardinality(BackendSupport(sim, s))
                unit == inputs_map.v.w[s] * (scale \div n)
            IN {[i |-> s, o |-> it.o, v |-> it.p * unit] :
                   it \in {x \in its :
                              ~BelowMinP(x.p * inputs_map.v.w[s],
                                         n * inputs_map.v.den)}}
    IN UNION {from(s) : s \in DOMAIN inputs_map.v.w}

\* the (input_state, output_state) pairs of the double loop of probs that
\* pass the cutoff, each with v = output_prob = p * input_prob
Contributions(sim) ==
    LET scale == ProbsScale(sim)
        from(s) ==
            LET its == allstateprob_iterator(sim, s)
                n == Cardinality(BackendSupport(sim, s))
                unit == inputs_map.v.w[s] * (scale \div n)
            IN {[i |-> s, o |-> it.o, v |-> it.p * unit] :
                   it \in {x \in its : ~BelowMinP(x.p, n)}}
    IN UNION {from(s) : s \in DOMAIN inputs_map.v.w}

\* fault: the results are normalised by the accepted and the discarded mass
ProbsResult_mut(sim) ==
    LET den == inputs_map.v.den * ProbsScale(sim)
        C == Contributions(sim)
        lost == {c \in C : ~state_selected_physical(c.o)}
        kept == {c \in C : state_selected_physical(c.o)
                           /\ state_selected(c.o) = "true"}
        dropped == {c \in C : state_selected_physical(c.o)
                              /\ state_selected(c.o) # "true"}
        perf_num == den - SumV(lost)
        physical_perf == IF BelowMinP(perf_num, den) THEN <<0, 1>> ELSE <<perf_num, den>>
        output == [k \in {filter_herald(c.o, FALSE) : c \in kept} |->
                      SumV({c \in kept : filter_herald(c.o, FALSE) = k})]
        all_p == SumV(kept)
        p_logic_discard == SumV(dropped)
    IN IF all_p = 0
       THEN [NoResult EXCEPT !.results = output, !.physical_perf = physical_perf,
                             !.not_selected = p_logic_discard,
                             !.not_selected_physical = SumV(lost)]
       ELSE [NoResult EXCEPT
                !.results = [k \in DOMAIN output |->
                                <<output[k], all_p + p_logic_discard>>],
                !.physical_perf = physical_perf,
                !.logical_perf = <<(p_logic_discard + all_p) - p_logic_discard,
                                   p_logic_discard + all_p>>,
                !.has_logical = TRUE,
                !.all_p = all_p,
                !.not_selected = p_logic_discard,
                !.not_selected_physical = SumV(lost)]

\* fault: a contribution that fails the physical selection goes on to the
\* logical selection
ProbsResult_fall(sim) ==
    LET den == inputs_map.v.den * ProbsScale(sim)
        C == Contributions(sim)
        lost == {c \in C : ~state_selected_physical(c.o)}
        kept == {c \in C : state_selected(c.o) = "true"}
        dropped == {c \in C : state_selected(c.o) # "true"}
        perf_num == den - SumV(lost)
        physical_perf == IF BelowMinP(perf_num, den) THEN <<0, 1>> ELSE <<perf_num, den>>
        output == [k \in {filter_herald(c.o, FALSE) : c \in kept} |->
                      SumV({c \in kept : filter_herald(c.o, FALSE) = k})]
        all_p == SumV(kept)
        p_logic_discard == SumV(dropped)
    IN IF all_p = 0
       THEN [NoResult EXCEPT !.results = output, !.physical_perf = physical_perf,
                             !.not_selected = p_logic_discard,
                             !.not_selected_physical = SumV(lost),
                             !.kept = {c.o : c \in kept}]
       ELSE [NoResult EXCEPT
                !.results = [k \in DOMAIN output |-> <<output[k], all_p>>],
                !.physical_perf = physical_perf,
                !.logical_perf = <<(p_logic_discard + all_p) - p_logic_discard,
                                   p_logic_discard + all_p>>,
                !.has_logical = TRUE,
                !.all_p = all_p,
                !.not_selected = p_logic_discard,
                !.not_selected_physical = SumV(lost),
                !.kept = {c.o : c \in kept}]

\* the value returned by probs once the loops ran without an exception
ProbsResult(sim) ==
    LET den == inputs_map.v.den * ProbsScale(sim)
        C == Contributions(sim)
        lost == {c \in C : ~state_selected_physical(c.o)}
        kept == {c \in C : state_selected_physical(c.o)
                           /\ state_selected(c.o) = "true"}
        dropped == {c \in C : state_selected_physical(c.o)
                              /\ state_selected(c.o) # "true"}
        perf_num == den - SumV(lost)
        physical_perf == IF BelowMinP(perf_num, den) THEN <<0, 1>> ELSE <<perf_num, den>>
        output == [k \in {filter_herald(c.o, FALSE) : c \in kept} |->
                      SumV({c \in kept : filter_herald(c.o, FALSE) = k})]
        all_p == SumV(kept)
        p_logic_discard == SumV(dropped)
    IN IF all_p = 0
       THEN [NoResult EXCEPT !.results = output, !.physical_perf = physical_perf,
                             !.not_selected = p_logic_discard,
                             !.not_selected_physical = SumV(lost),
                             !.kept = {c.o : c \in kept}]
       ELSE [NoResult EXCEPT
                !.results = [k \in DOMAIN output |-> <<output[k], all_p>>],
                !.physical_perf = physical_perf,
                !.logical_perf = <<(p_logic_discard + all_p) - p_logic_discard,
                                   p_logic_discard + all_p>>,
                !.has_logical = TRUE,
                !.all_p = all_p,
                !.not_selected = p_logic_discard,
                !.not_selected_physical = SumV(lost),
                !.kept = {c.o : c \in kept}]

\* the exception that ends the loops of probs, or "ok"
ProbsError(sim) ==
    LET C == Contributions(sim)
        sel == {state_selected(c.o) : c \in {x \in C : state_selected_physical(x.o)}}
    IN IF \E s \in DOMAIN inputs_map.v.w : Len(s) # sim.size THEN "BackendError"
       ELSE IF C # {} /\ min_mode_post_select.none THEN "TypeError"
       ELSE IF sel \ {"true", "false"} # {} THEN CHOOSE e \in sel \ {"true", "false"} : TRUE
       ELSE "ok"

\* Processor.probs() without a progress callback: no caller code runs
\* between the call and its end
probs ==
    /\ UNCHANGED <<n_moi, n_heralds, components, in_ports, out_ports,
                   post_select, min_mode_post_select, anon_herald_num,
                   inputs_map, source, backend_name, min_p, hist>>
    /\ IF InitCommandError("probs") # "ok"
       THEN /\ last' = Outcome("probs", InitCommandError("probs"))
            /\ UNCHANGED simulator
       ELSE LET sim == IF simulator.none THEN BuiltSimulator ELSE simulator
            IN /\ simulator' = sim
               /\ LET err == ProbsError(sim.v)
                  IN IF err # "ok"
                     THEN last' = Outcome("probs", err)
                     ELSE last' = Returned("probs", ProbsResult(sim.v))

\* Processor.probs(progress_callback) up to the loops: the preconditions,
\* the simulator, the locals
probs_begin(progress_callback) ==
    /\ call = Idle
    /\ UNCHANGED <<n_moi, n_heralds, components, in_ports, out_ports,
                   post_select, min_mode_post_select, anon_herald_num,
                   inputs_map, source, backend_name, min_p, hist, other, parameters>>
    /\ IF InitCommandError("probs") # "ok"
       THEN /\ last' = Outcome("probs", InitCommandError("probs"))
            /\ UNCHANGED <<simulator, call>>
       ELSE /\ simulator' = IF simulator.none THEN BuiltSimulator ELSE simulator
            /\ call' = [Idle EXCEPT !.pc = "probs",
                                    !.progress_callback = progress_callback,
                                    !.todo = DOMAIN inputs_map.v.w]
            /\ last' = Outcome("probs", "running")

\* the exception that ends the inner loop of probs for one input state, or
\* "ok"
InputError(sim, input_state) ==
    IF Len(input_state) # sim.size THEN "BackendError"
    ELSE LET n == Cardinality(BackendSupport(sim, input_state))
             outs == {it.o : it \in {x \in allstateprob_iterator(sim, input_state) :
                                         ~BelowMinP(x.p, n)}}
             sel == {state_selected(o) : o \in {x \in outs : state_selected_physical(x)}}
         IN IF outs # {} /\ min_mode_post_select.none THEN "TypeError"
            ELSE IF sel \ {"true", "false"} # {}
            THEN CHOOSE e \in sel \ {"true", "false"} : TRUE
            ELSE "ok"

\* one pass of the outer loop of probs: the output states of input_state,
\* idx += 1, then progress_callback(idx / input_length) when a callback
\* was given.  The accumulators are computed at the end from all the
\* contributions (their sums do not depend on the order).
probs_step(input_state) ==
    /\ call.pc = "probs"
    /\ input_state \in call.todo
    /\ LET err == InputError(simulator.v, input_state)
           after == [call EXCEPT !.idx = @ + 1, !.todo = @ \ {input_state}]
           input_length == Cardinality(DOMAIN inputs_map.v.w)
       IN IF err # "ok"
          THEN call' = Idle /\ last' = Outcome("probs", err)
          ELSE IF call.progress_callback = "raises"
          THEN call' = Idle /\ last' = Outcome("probs", "CallbackError")
          ELSE IF call.progress_callback = "reports"
          THEN /\ call' = [after EXCEPT !.reports = Append(@, <<after.idx, input_length>>)]
               /\ UNCHANGED last
          ELSE call' = after /\ UNCHANGED last
    /\ UNCHANGED <<n_moi, n_heralds, components, in_ports, out_ports,
                   post_select, min_mode_post_select, anon_herald_num,
                   inputs_map, simulator, source, backend_name, min_p, hist, other, parameters>>

\* the end of probs, after the loops
probs_return ==
    /\ call.pc = "probs"
    /\ call.todo = {}
    /\ call' = Idle
    /\ last' = Returned("probs", ProbsResult(simulator.v))
    /\ UNCHANGED <<n_moi, n_heralds, components, in_ports, out_ports,
                   post_select, min_mode_post_select, anon_herald_num,
                   inputs_map, simulator, source, backend_name, min_p, hist, other, parameters>>

(* ------------------------------- Next ---------------------------------- *)
\* the (expected, name) pairs given to add_herald
HeraldArgs == {<<0, NoName>>, <<1, StrName("h")>>, <<2, NoName>>}

\* the input states tried: all ones and zero-then-ones of the expected
\* length, and one state that is one mode too long
InputStates ==
    LET n == IF n_moi >= 0 THEN n_moi ELSE 0
    IN (IF n_moi >= 0
        THEN {[i \in 1..n |-> 1], [i \in 1..n |-> IF i = 1 THEN 0 ELSE 1]}
        ELSE {})
       \cup {[i \in 1..(n + 1) |-> 1]}

\* a call that adds to the structure or changes a setting for the first
\* time is made while the structure is below the bound
Room == StructureSize < MaxSize

DoSetPostprocess ==
    /\ Room \/ hist.postprocess_set
    /\ \E f \in UserPredicates \cup {NoPredicate} : set_postprocess(f)

DoAddHerald ==
    /\ Room
    /\ \E mode \in 0..circuit_size, en \in HeraldArgs :
           add_herald(mode, en[1], en[2])

DoAddPort ==
    /\ Room
    /\ \E m \in 0..circuit_size, port \in UserPorts, location \in PortLocations :
           add_port(m, port, location)

DoAddComponent ==
    /\ Room
    /\ \E component \in PlainComponents \cup {NotAComponent, NoCopyObject}, keep_port \in BOOLEAN :
           \E keys \in Mappings(component.m) : add(keys, component, keep_port)

DoAddProcessor ==
    /\ Room
    /\ \E child \in ChildProcessors, keep_port \in BOOLEAN :
           \E keys \in Mappings(child.m) : add(keys, child, keep_port)

DoWithInput ==
    /\ Room \/ hist.with_input_called
    /\ \E input_state \in InputStates : with_input(input_state)

DoSetSource ==
    /\ Room \/ source # "perfect"
    /\ \E src \in Sources : set_source(src)

DoSamplesBegin == \E count \in 0..MaxCount : samples_begin(count, "None")

DoSamplesStep ==
    /\ call.pc = "samples"
    /\ \E selected_input \in DOMAIN inputs_map.v.w :
           \E sampled_state \in SampledStates(selected_input) :
               /\ samples_step(selected_input, sampled_state)
               /\ call'.not_selected <= MaxRejects
               /\ call'.not_selected_physical <= MaxRejects

\* a public call starts only when no samples call is running; what it
\* writes into a container is seen through every reference to the container
Public(A) ==
    call = Idle /\ A /\ UNCHANGED <<call, parameters>> /\ other' = Aliased(other)

Next ==
    \/ Public(DoSetPostprocess)
    \/ Public(DoWithInput)
    \/ Public(DoSetSource)
    \/ Public(DoAddHerald)
    \/ Public(DoAddPort)
    \/ Public(DoAddComponent)
    \/ Public(DoAddProcessor)
    \/ Public(probs)
    \/ DoSamplesBegin
    \/ DoSamplesStep
    \/ samples_return

Spec == Init /\ [][Next]_vars

(* ------------------ simulation of composed processors ------------------ *)
\* The same operations on a processor that is first built by composition
\* and heralding with well-formed arguments, then configured and run.
SimBuilding == inputs_map.none /\ simulator.none /\ post_select = NoPredicate

SimAddProcessor ==
    /\ SimBuilding /\ components = <<>> /\ n_heralds = 0
    /\ \E child \in ChildProcessors : add(PyRange(0, child.m), child, TRUE)

SimAddComponent ==
    /\ SimBuilding /\ Len(components) < MaxSimComps
    /\ \E component \in PlainComponents : add(<<0, 1>>, component, TRUE)

SimAddHerald ==
    /\ SimBuilding /\ n_heralds < MaxSimHeralds /\ n_moi > 1
    /\ \E mode \in 0..(circuit_size - 1), expected \in 0..1 :
           add_herald(mode, expected, NoName)

SimWithInput == \E input_state \in [1..n_moi -> 0..1] : with_input(input_state)

SimSetPostprocess == \E f \in UserPredicates \cup {NoPredicate} : set_postprocess(f)

SimSetSource == \E src \in Sources : set_source(src)

NextSim ==
    \/ Public(SimAddProcessor)
    \/ Public(SimAddComponent)
    \/ Public(SimAddHerald)
    \/ Public(SimSetPostprocess)
    \/ Public(SimWithInput)
    \/ Public(SimSetSource)
    \/ Public(probs)
    \/ DoSamplesBegin
    \/ DoSamplesStep
    \/ samples_return

SpecSim == Init /\ [][NextSim]_vars

\* An iteration of the loop of samples that accepts the sampled state.
AcceptedDraw ==
    /\ call.pc = "samples"
    /\ \E selected_input \in DOMAIN inputs_map.v.w :
           \E sampled_state \in SampledStates(selected_input) :
               /\ Classify(selected_input, sampled_state) = "accepted"
               /\ samples_step(selected_input, sampled_state)

\* SpecSim with fair sampling: the source and the backend draw at random
\* with fixed non-zero probabilities, so an outcome that stays possible is
\* drawn at some point; and the function returns once the loop has ended.
SpecSimFair ==
    /\ SpecSim
    /\ SF_vars(AcceptedDraw)
    /\ WF_vars(samples_return)

\* samples called with a progress callback
DoSamplesProgress ==
    \E count \in 0..MaxCount, progress_callback \in Callbacks \ {"None"} :
        samples_begin(count, progress_callback)

\* The build, configure and run order of SpecSim, with samples and probs
\* given a progress callback; probs takes its loop pass by pass, the items
\* of the input distribution in any order.
NextProgress ==
    \/ Public(SimAddProcessor)
    \/ Public(SimAddComponent)
    \/ Public(SimAddHerald)
    \/ Public(SimSetPostprocess)
    \/ Public(SimWithInput)
    \/ Public(SimSetSource)
    \/ DoSamplesProgress
    \/ DoSamplesStep
    \/ samples_return
    \/ \E progress_callback \in Callbacks : probs_begin(progress_callback)
    \/ \E input_state \in call.todo : probs_step(input_state)
    \/ probs_return

SpecProgress == Init /\ [][NextProgress]_vars

(* ------------------- composing the post-processed CNOT ----------------- *)
\* PostProcessedCnotItem().build(), the call that is to deliver the CNOT
\* component of the composition scenario.  With the default option
\* AsType.PROCESSOR its first statement after the circuit is Processor(6):
\* Processor.__init__(backend_name, m_circuit, source) has no default for
\* m_circuit, so Python raises TypeError before any herald, port or
\* predicate is set, and no component is returned.  (The item itself keeps
\* the abstract build_circuit and build_processor of CatalogItem, so that
\* PostProcessedCnotItem() raises TypeError as well.)  The Processor the
\* component was to be composed into is left as it is.
build ==
    /\ last' = Outcome("build", "TypeError")
    /\ UNCHANGED <<n_moi, n_heralds, components, in_ports, out_ports, post_select,
                   min_mode_post_select, anon_herald_num, inputs_map, simulator,
                   source, backend_name, min_p, hist>>

\* The 2-mode Processor of the scenario: the build call for the component,
\* and the calls the scenario makes on the Processor itself.
NextCnot ==
    \/ Public(build)
    \/ Public(set_postprocess(PredCnot))
    \/ Public(DoAddHerald)
    \/ Public(SimWithInput)
    \/ Public(probs)

SpecCnot == Init /\ [][NextCnot]_vars

(* --------------------------- two processors ---------------------------- *)
\* the attributes of the Processor the calls are made on become those of proc
BecomeProcessor(proc) ==
    /\ n_moi' = proc.n_moi
    /\ n_heralds' = proc.n_heralds
    /\ components' = proc.components
    /\ in_ports' = proc.in_ports
    /\ out_ports' = proc.out_ports
    /\ post_select' = proc.post_select
    /\ min_mode_post_select' = proc.min_mode_post_select
    /\ anon_herald_num' = proc.anon_herald_num
    /\ inputs_map' = proc.inputs_map
    /\ simulator' = proc.simulator
    /\ source' = proc.source
    /\ backend_name' = proc.backend_name
    /\ parameters' = proc.parameters
    /\ UNCHANGED min_p

\* q = p.copy().  The caller goes on with one of the two objects: with p,
\* and other is the copy, or with q, and other is the original.
DoCopy ==
    /\ call = Idle
    /\ other.role = "none"
    /\ LET res == copy(SelfProcessor)
       IN \/ /\ other' = [role |-> "copy", shared |-> res.shared,
                          proc |-> res.proc, calls |-> 0]
             /\ UNCHANGED <<n_moi, n_heralds, components, in_ports, out_ports,
                            post_select, min_mode_post_select, anon_herald_num,
                            inputs_map, simulator, source, backend_name, min_p,
                            parameters>>
          \/ /\ other' = [role |-> "original", shared |-> res.shared,
                          proc |-> SelfProcessor, calls |-> 0]
             /\ BecomeProcessor(res.proc)
    /\ last' = Outcome("copy", "ok")
    /\ UNCHANGED <<call, hist>>

\* the five calls that change a Processor, with the arguments tried
CopyAdd ==
    \E given \in PlainComponents \cup ChildProcessors, keep_port \in BOOLEAN :
        \E keys \in Mappings(given.m) : add(keys, given, keep_port)

CopyAddPort ==
    \E m \in 0..circuit_size, port \in UserPorts, location \in PortLocations :
        add_port(m, port, location)

CopyAddHerald ==
    \E mode \in 0..circuit_size, en \in HeraldArgs : add_herald(mode, en[1], en[2])

CopySetPostprocess == \E f \in UserPredicates \cup {NoPredicate} : set_postprocess(f)

CopyWithInput == \E input_state \in InputStates : with_input(input_state)

\* with_input with a photon on every mode of interest
CopyPlugAll == with_input([i \in 1..n_moi |-> 1])

\* a call made before copy(), on the one Processor there is
Before(A) == other.role = "none" /\ Public(A)

\* a call made after copy() on the object the caller went on with; calls
\* counts them (history)
Later(A) ==
    /\ other.role # "none"
    /\ other.calls < MaxCopyCalls
    /\ call = Idle
    /\ A
    /\ UNCHANGED <<call, parameters>>
    /\ other' = [Aliased(other) EXCEPT !.calls = @ + 1]

\* A processor is built by composition and may be given an input, it is
\* copied at some point, and calls are then made on one of the two objects.
NextCopy ==
    \/ Before(SimAddProcessor)
    \/ Before(SimAddComponent)
    \/ Before(CopyPlugAll)
    \/ DoCopy
    \/ Later(CopyAdd)
    \/ Later(CopyAddPort)
    \/ Later(CopyAddHerald)
    \/ Later(CopySetPostprocess)
    \/ Later(CopyWithInput)

SpecCopy == Init /\ [][NextCopy]_vars

\* mode_post_selection with the thresholds tried
DoModePostSelection ==
    /\ call = Idle
    /\ \E n \in 0..MaxMoi : mode_post_selection(n)
    /\ UNCHANGED <<call, other>>

\* A processor built by composition and heralding that is given inputs,
\* well-formed or not, with a threshold configured at any point.
NextSelect ==
    \/ Public(SimAddProcessor)
    \/ Public(SimAddHerald)
    \/ Public(CopyWithInput)
    \/ DoModePostSelection

SpecSelect == Init /\ [][NextSelect]_vars

\* A processor built by composing a child and heralding, whose predicate
\* may be cleared, with a source, a threshold of mode_post_selection and
\* an input, then run by probs, in a process whose min_p is the noise floor
\* or 1/2, a cutoff between the backend probabilities 1/3 and 1/2.
NextCutoff ==
    \/ Public(SimAddProcessor)
    \/ Public(SimAddHerald)
    \/ Public(set_postprocess(NoPredicate))
    \/ Public(SimWithInput)
    \/ Public(SimSetSource)
    \/ Public(probs)
    \/ DoModePostSelection

SpecCutoff == InitWith({NoiseFloor, <<1, 2>>}) /\ [][NextCutoff]_vars

(* ------------------------- the caller's object ------------------------ *)
\* The caller makes an object, a component or a sub-processor, to work with
\* from now on: other holds it as the caller sees it.
CallerHolds ==
    /\ call = Idle
    /\ \E given \in PlainComponents \cup ChildProcessors :
           other' = [role |-> "given", shared |-> {}, proc |-> given, calls |-> 0]
    /\ UNCHANGED <<n_moi, n_heralds, components, in_ports, out_ports, post_select,
                   min_mode_post_select, anon_herald_num, inputs_map, simulator,
                   source, backend_name, min_p, hist, last, call, parameters>>

\* add of the caller's object.  The one statement of add that touches its
\* argument is component.copy(), which reads it: the call leaves the
\* caller's object as it was.
CallerAdd ==
    /\ other.role = "given"
    /\ Room
    /\ \E keys \in Mappings(other.proc.m), keep_port \in BOOLEAN :
           add(keys, other.proc, keep_port)

\* what a predicate of the parent computes once the object obj has been
\* given the function f: a lambda that closes over obj calls f
Rebound(pred, obj, f) ==
    LET over == {i \in 1..Len(pred.layers) : pred.layers[i].obj = obj}
    IN IF over = {} THEN pred
       ELSE [fn |-> f.fn, layers |-> SubSeq(pred.layers, 1, Min(over)) \o f.layers]

\* the caller calls set_postprocess(f) on the sub-processor it made, at any
\* time after making it
CallerSetPostprocess ==
    /\ call = Idle
    /\ other.role = "given"
    /\ other.proc.kind = "Processor"
    /\ other.calls < MaxCopyCalls
    /\ \E f \in {PredFirst, PredAny} \ {other.proc.post_select} :
           /\ other' = [other EXCEPT !.proc.post_select = f, !.calls = @ + 1]
           /\ post_select' = Rebound(post_select, other.proc.obj, f)
    /\ UNCHANGED <<n_moi, n_heralds, components, in_ports, out_ports,
                   min_mode_post_select, anon_herald_num, inputs_map, simulator,
                   source, backend_name, min_p, hist, last, call, parameters>>

\* A Processor that is given the objects the caller makes, each before or
\* after the caller changes it.
NextCaller ==
    \/ CallerHolds
    \/ Public(CallerAdd)
    \/ CallerSetPostprocess

SpecCaller == Init /\ [][NextCaller]_vars

(* ------------------------------ properties ----------------------------- *)
\* C1: in every reachable state, whatever calls were made and however they
\* ended, circuit_size is the sum of the two counters n_moi and n_heralds.
C1_CircuitSize == circuit_size = n_moi + n_heralds

\* a failed add_herald has moved the two counters and the sum stayed at the
\* constructed size
C1_Witness ==
    /\ last.op = "add_herald"
    /\ last.err = "UnavailableModeException"
    /\ n_heralds > 0
    /\ circuit_size = MaxMoi

\* C2, as stated: once set_postprocess was called with a predicate, every
\* later add raises RuntimeError and leaves the component list, the port
\* registries, n_moi, n_heralds and the cached simulator unchanged.
C2_AddFrozen ==
    [][(hist.postprocess_set /\ call = Idle /\ last'.op = "add")
           => /\ last'.err = "RuntimeError"
              /\ UNCHANGED <<components, in_ports, out_ports, n_moi, n_heralds,
                             simulator>>]_vars

\* C3, as stated: a processor that holds a predicate holds one after every
\* step, and an add made while it holds one is rejected; so no sequence of
\* calls brings back a state in which add succeeds.
C3_Latch ==
    [][(post_select # NoPredicate)
           => /\ post_select' # NoPredicate
              /\ (last'.op = "add" => last'.err = "RuntimeError")]_vars

\* C4: a call of samples or probs made when with_input was never called (or
\* the input is missing) fails with the missing-input assertion, one made
\* with a method that is not the backend's fails with the wrong-method
\* assertion, and either failure leaves the cached simulator as it was.
C4_Preconditions ==
    [][\A name \in {"samples", "probs"} :
          (call = Idle /\ last'.op = name) =>
             /\ ~hist.with_input_called => inputs_map.none
             /\ inputs_map.none =>
                    /\ last'.err = "AssertionError: Input is missing"
                    /\ call' = Idle
                    /\ simulator' = simulator
             /\ (~inputs_map.none /\ available_sampling_method # name) =>
                    /\ last'.err = "AssertionError: Cannot call"
                    /\ call' = Idle
                    /\ simulator' = simulator]_vars

\* probs was refused for the wrong method while a simulator built by an
\* earlier samples call is cached
C4_Witness ==
    /\ last.op = "probs"
    /\ last.err = "AssertionError: Cannot call"
    /\ ~simulator.none
    /\ hist.with_input_called

\* C5: assigning the source drops the input distribution; the distribution
\* stays missing until with_input is called, and while it is missing
\* samples and probs fail with the missing-input assertion.
C5_SourceInvalidates ==
    [][/\ (call = Idle /\ last'.op = "source") => inputs_map'.none
       /\ (inputs_map.none /\ ~inputs_map'.none) => last'.op = "with_input"
       /\ (inputs_map.none /\ call = Idle /\ last'.op \in {"samples", "probs"})
              => last'.err = "AssertionError: Input is missing"]_vars

\* after a with_input that succeeded and a source assignment, a command was
\* refused for the missing input
C5_Witness ==
    /\ last.op \in {"samples", "probs"}
    /\ last.err = "AssertionError: Input is missing"
    /\ hist.with_input_called
    /\ ~min_mode_post_select.none
    /\ source = "lossy"

\* C6, as stated: with_input fails exactly when the length of input_state
\* differs from n_moi; every input_state of length n_moi is accepted.
C6_LengthOnly ==
    \A input_state \in InputStates :
        (WithInputResult(input_state).err # "ok") <=> (Len(input_state) # n_moi)

\* C7: a samples(count) call that returns yields exactly count entries, and
\* each entry is the herald-filtered form of a sampled state that lights at
\* least min_mode_post_select modes, carries the expected photon number on
\* every herald mode, and satisfies the predicate when one is set.
C7_SamplesAccepted ==
    (last.op = "samples" /\ last.err = "ok") =>
        LET r == last.res
        IN /\ Len(r.results) = r.count
           /\ Len(r.accepted) = r.count
           /\ \A i \in 1..r.count :
                 LET st == r.accepted[i]
                 IN /\ Cardinality({k \in 1..Len(st) : st[k] > 0})
                           >= min_mode_post_select.v
                    /\ \A md \in DOMAIN heralds : st[md + 1] = heralds[md]
                    /\ post_select # NoPredicate
                           => ApplyPredicate(post_select, st) = "true"
                    /\ r.results[i] = filter_herald(st, FALSE)

\* samples returned an entry of a heralded processor with a predicate after
\* rejecting at least one sampled state
C7_Witness ==
    /\ last.op = "samples"
    /\ last.err = "ok"
    /\ last.res.count >= 1
    /\ DOMAIN heralds # {}
    /\ post_select # NoPredicate
    /\ last.res.not_selected + last.res.not_selected_physical > 0

\* C8, as stated: for every count >= 0 a samples call that passes its
\* preconditions and ends its loop returns
\* physical_perf = (count + not_selected) / (count + not_selected + not_selected_physical)
\* and logical_perf = count / (count + not_selected), with no division by
\* zero and both ratios in [0, 1].
C8_SamplesPerf ==
    (last.op = "samples" /\ last.err \in {"ok", "ZeroDivisionError"}) =>
        LET r == last.res
        IN /\ last.err = "ok"
           /\ r.physical_perf = <<r.count + r.not_selected,
                                  r.count + r.not_selected + r.not_selected_physical>>
           /\ r.logical_perf = <<r.count, r.count + r.not_selected>>
           /\ r.physical_perf[2] > 0 /\ r.logical_perf[2] > 0
           /\ 0 <= r.physical_perf[1] /\ r.physical_perf[1] <= r.physical_perf[2]
           /\ 0 <= r.logical_perf[1] /\ r.logical_perf[1] <= r.logical_perf[2]

\* the sum of the numerators of a distribution given as state -> <<num, den>>
RECURSIVE SumNum(_, _)
SumNum(results, keys) ==
    IF keys = {} THEN 0
    ELSE LET k == CHOOSE k \in keys : TRUE
         IN results[k][1] + SumNum(results, keys \ {k})

\* the shape of the dict probs returned: with accepted mass, every
\* returned probability is an accumulated mass divided by all_p, the masses
\* add up to all_p, and logical_perf is
\* accepted / (discarded + accepted) = 1 - discarded / (discarded + accepted)
\* within [0, 1]; without accepted mass the distribution is empty and the
\* dict has physical_perf but no logical_perf
ProbsShape(r) ==
    LET accepted == r.all_p
        discarded == r.not_selected
    IN IF accepted > 0
       THEN /\ DOMAIN r.results # {}
            /\ \A k \in DOMAIN r.results :
                   r.results[k][2] = accepted /\ r.results[k][1] > 0
            /\ SumNum(r.results, DOMAIN r.results) = accepted
            /\ r.has_logical
            /\ r.logical_perf[2] > 0
            /\ r.logical_perf[1] * (discarded + accepted)
                   = accepted * r.logical_perf[2]
            /\ 0 <= r.logical_perf[1]
            /\ r.logical_perf[1] <= r.logical_perf[2]
       ELSE /\ DOMAIN r.results = {}
            /\ ~r.has_logical
            /\ r.physical_perf[2] > 0

\* every float of the probs call is an exact binary fraction: the common
\* denominator of the input probabilities and the backend probabilities is
\* a power of two, so the products and the sums of the loop are exact and
\* the only rounding is that of output[k] /= all_p
ExactOperands ==
    \E j \in 0..30 : inputs_map.v.den * ProbsScale(simulator.v) = 2^j

\* the largest shift among the returned probabilities
MaxShift(results) == Max({FloatDiv(results[k][1], results[k][2]).shift :
                             k \in DOMAIN results})

\* what the returned floats add up to is
\* 1 - RoundingSum / (all_p * 2^(52 + MaxShift)), all_p in the units of the
\* accumulators
RECURSIVE RoundingSum(_, _)
RoundingSum(results, keys) ==
    IF keys = {} THEN 0
    ELSE LET k == CHOOSE k \in keys : TRUE
             f == FloatDiv(results[k][1], results[k][2])
         IN f.rem * 2^(MaxShift(results) - f.shift)
                + RoundingSum(results, keys \ {k})

ConflictPorts == UserPorts \cup {PortA}

\* C10: while a herald is registered on mode md, add_port of any port on a
\* range containing md, at any location the port supports, raises
\* UnavailableModeException; and while a port is registered on md at the
\* input or the output, add_herald on md raises UnavailableModeException.
C10_HeraldPortConflict ==
    /\ \A md \in DOMAIN heralds :
          \A port \in ConflictPorts, location \in PortLocations :
              \A m \in (md - port.m + 1)..md :
                  supports_location(port, location) =>
                      AddPortTo(in_ports, out_ports, m, port, location).err
                          = "UnavailableModeException"
    /\ \A md \in 0..circuit_size :
          (\E i \in 1..Len(in_ports) : in_ports[i].port.kind # "Herald"
                                       /\ md \in Range(in_ports[i].range))
          \/ (\E i \in 1..Len(out_ports) : out_ports[i].port.kind # "Herald"
                                          /\ md \in Range(out_ports[i].range))
          => \A en \in HeraldArgs :
                 AddHeraldTo(in_ports, out_ports, anon_herald_num,
                             md, en[1], en[2]).err = "UnavailableModeException"

\* add_port was refused on a processor whose only registered ports are
\* heralds
C10_Witness ==
    /\ last.op = "add_port"
    /\ last.err = "UnavailableModeException"
    /\ DOMAIN heralds # {}
    /\ UserEntries(in_ports) = 0
    /\ UserEntries(out_ports) = 0

\* C11: an add_herald(mode, expected, name) that succeeds lowers n_moi by
\* exactly 1, raises n_heralds by exactly 1, appends one herald entry on that
\* mode to the input and to the output registry (so heralds[mode] = expected
\* afterwards), and leaves the component list and every other port entry as
\* they were; the mode carried no port before the call.
C11_AddHerald ==
    [][(call = Idle /\ last'.op = "add_herald" /\ last'.err = "ok") =>
       \A mode \in 0..circuit_size, en \in HeraldArgs :
          add_herald(mode, en[1], en[2]) =>
             /\ n_moi' = n_moi - 1
             /\ n_heralds' = n_heralds + 1
             /\ components' = components
             /\ get_input_port(mode) = 0 /\ get_output_port(mode) = 0
             /\ \E nm \in {en[2], AnonName(anon_herald_num)} :
                   /\ en[2] # NoName => nm = en[2]
                   /\ in_ports' = Append(in_ports,
                          [port |-> Herald(en[1], nm), range |-> <<mode>>])
                   /\ out_ports' = Append(out_ports,
                          [port |-> Herald(en[1], nm), range |-> <<mode>>])
             /\ mode \in DOMAIN HeraldsOf(out_ports')
             /\ HeraldsOf(out_ports')[mode] = en[1]]_vars

\* add_herald succeeded on a processor that already held a user port
C11_Witness ==
    /\ last.op = "add_herald"
    /\ last.err = "ok"
    /\ n_heralds = 1
    /\ n_moi = MaxMoi - 1
    /\ UserEntries(out_ports) > 0
    /\ out_ports[Len(out_ports)].port.kind = "Herald"

\* the entries of a port registry cover pairwise disjoint mode ranges
NoOverlap(ports) ==
    \A i, j \in 1..Len(ports) :
        i # j => Range(ports[i].range) \cap Range(ports[j].range) = {}

\* C12: after any sequence of add_port, add_herald and add (composition
\* included), successful or not, no two distinct ports of the input registry
\* cover a common mode, and no two distinct ports of the output registry do.
C12_NoOverlap == NoOverlap(in_ports) /\ NoOverlap(out_ports)

\* a composition has just registered a port of the child next to a port the
\* parent already held, at the input and at the output
C12_Witness ==
    /\ last.op = "add"
    /\ last.err = "ok"
    /\ Len(in_ports) >= 2
    /\ Len(out_ports) >= 2

\* the herald entries of a child's output registry, in order
ChildHeraldEntries(child) ==
    SelectSeq(child.out_ports, LAMBDA e : e.port.kind = "Herald")

BuildOps == {"init", "add", "add_herald", "add_port", "set_postprocess"}

C14_PermsMerged ==
    \A i \in 1..(Len(components) - 1) :
        ~(/\ components[i].c.kind = "PERM"
          /\ components[i + 1].c.kind = "PERM"
          /\ components[i].r = components[i + 1].r)

\* C15, as stated: after every successful add, add_port, add_herald,
\* set_postprocess, with_input or source assignment the cached simulator is
\* absent, and an absent simulator stays absent until samples or probs
\* builds it.
C15_SimulatorInvalidated ==
    [][/\ (/\ call = Idle
           /\ last'.op \in {"add", "add_port", "add_herald", "set_postprocess",
                            "with_input", "source"}
           /\ last'.err = "ok") => simulator'.none
       /\ (simulator.none /\ ~simulator'.none)
              => last'.op \in {"samples", "probs"}]_vars

\* mode k of the circuit gets the source's distribution: a herald expecting
\* one photon, or the non-herald mode whose entry of input_state is positive
\* (the i-th non-herald mode reads input_state[i])
GetsSource(k, input_state) ==
    IF k \in DOMAIN heralds THEN heralds[k] = 1
    ELSE input_state[Cardinality({j \in 0..(k - 1) : j \notin DOMAIN heralds}) + 1] > 0

\* the one-mode marginal of mode k
MarginalOf(k, input_state) ==
    IF GetsSource(k, input_state) THEN probability_distribution(source) ELSE Vacuum

\* the product of f(1) .. f(n)
RECURSIVE ProductUpTo(_, _)
ProductUpTo(f, n) == IF n = 0 THEN 1 ELSE f[n] * ProductUpTo(f, n - 1)

\* the product distribution of the marginals of modes 0 .. circuit_size-1
ProductDistribution(input_state) ==
    LET size == circuit_size
        marginal == [k \in 1..size |-> MarginalOf(k - 1, input_state)]
        states == {s \in [1..size -> 0..1] :
                      \A k \in 1..size : <<s[k]>> \in DOMAIN marginal[k].w}
    IN [den |-> ProductUpTo([k \in 1..size |-> marginal[k].den], size),
        w |-> [s \in states |->
                  ProductUpTo([k \in 1..size |-> marginal[k].w[<<s[k]>>]], size)]]

\* C16: in the state a with_input call leaves, every with_input(input_state)
\* that succeeds yields the product, in mode order 0 .. circuit_size-1, of
\* the per-mode marginals (the source's distribution for a herald expecting
\* 1 and for the i-th non-herald mode when input_state[i] > 0, the vacuum
\* otherwise) with min_mode_post_select the number of modes that got the
\* source's distribution; and the processor holds such a product and count
\* when the call succeeded.
C16_InputProduct ==
    (call = Idle /\ last.op = "with_input") =>
        LET inputs == [1..(IF n_moi > 0 THEN n_moi ELSE 0) -> 0..1]
            lit(input_state) ==
                Cardinality({k \in 0..(circuit_size - 1) :
                                GetsSource(k, input_state)})
            good == {input_state \in inputs :
                        WithInputResult(input_state).err = "ok"}
        IN /\ \A input_state \in good :
                 LET r == WithInputResult(input_state)
                 IN /\ r.dist = ProductDistribution(input_state)
                    /\ r.expected_photons = lit(input_state)
           /\ last.err = "ok" =>
                 \E input_state \in good :
                     /\ inputs_map = Some(ProductDistribution(input_state))
                     /\ min_mode_post_select = Some(lit(input_state))

\* with_input succeeded with a lossy source on a processor holding a herald
\* that expects a photon, for an input that lights one mode and leaves one
\* in the vacuum
C16_Witness ==
    /\ last.op = "with_input"
    /\ last.err = "ok"
    /\ source = "lossy"
    /\ \E md \in DOMAIN heralds : heralds[md] = 1
    /\ min_mode_post_select.v = 2
    /\ circuit_size = 3
    /\ Cardinality(DOMAIN inputs_map.v.w) = 4

\* C17, as stated: the post-processed CNOT component is delivered and
\* composed into an empty Processor with 2 modes of interest, which then has
\* n_moi = 2 and n_heralds = 2: the build call of the scenario returns the
\* component, and the heralds of the component are on the Processor.
C17_CnotTwoModes ==
    last.op = "build" => (last.err = "ok" /\ n_moi = 2 /\ n_heralds = 2)

\* r is st without its herald modes, the other modes in their order
IsStripped(r, st) ==
    LET keep == {p \in 1..Len(st) : (p - 1) \notin DOMAIN heralds}
    IN /\ Len(r) = Cardinality(keep)
       /\ \A p \in keep : r[Cardinality({q \in keep : q <= p})] = st[p]

\* C18, as stated: every state in the results of samples and probs is an
\* accepted full output state with exactly the herald modes removed and the other modes
\* in order, so it has n_moi modes; and filter_herald returns its argument
\* when keep_herald is true or when the processor has no herald.
C18_HeraldsStripped ==
    (last.err = "ok" /\ last.op \in {"samples", "probs"}) =>
        LET r == last.res
        IN /\ last.op = "samples" =>
                 \A i \in 1..Len(r.results) :
                     /\ IsStripped(r.results[i], r.accepted[i])
                     /\ Len(r.results[i]) = n_moi
           /\ last.op = "probs" =>
                 /\ \A k \in DOMAIN r.results :
                        /\ \E o \in r.kept : IsStripped(k, o)
                        /\ Len(k) = n_moi
                 /\ \A o \in r.kept : \E k \in DOMAIN r.results : IsStripped(k, o)
           /\ \A s \in [1..circuit_size -> 0..1] :
                 /\ filter_herald(s, TRUE) = s
                 /\ DOMAIN heralds = {} => filter_herald(s, FALSE) = s

\* the child-ordered state of a parent state s: entry k is the photon count
\* of s on the parent mode that child mode k was mapped to
ChildOrdered(mapping, size, s) ==
    [k \in 1..size |-> s[ParentModeOf(mapping, k - 1) + 1]]

\* C19, as stated: when a sub-processor with a predicate is composed, for
\* every mode mapping and every parent output state s the parent's predicate
\* applied to s returns what the child's predicate returns on the
\* child-ordered state of s.
C19_PredicateTranslated ==
    [][(/\ call = Idle /\ last'.op = "add" /\ last'.err = "ok"
        /\ post_select = NoPredicate /\ post_select' # NoPredicate) =>
          \A child \in ChildProcessors, keep_port \in BOOLEAN :
              \A keys \in Mappings(child.m) :
                  add(keys, child, keep_port) =>
                      LET mapping == AddHeraldedModes(
                                         Resolve(keys, NonHeraldModes(child)).map,
                                         HeraldModeList(child.out_ports, 1),
                                         circuit_size)
                          size == child.n_moi + child.n_heralds
                      IN \A s \in [1..(n_moi' + n_heralds') -> 0..1] :
                             ApplyPredicate(post_select', s)
                                 = ApplyPredicate(child.post_select,
                                                  ChildOrdered(mapping, size, s))]_vars

\* the identities of the objects the caller hands to add: the components,
\* the sub-processors, and the components and ports of the sub-processors
CallerObjects ==
    LET given == PlainComponents \cup {NotAComponent, NoCopyObject, Circuit(MaxMoi)}
        procs == ChildProcessors
    IN {c.obj : c \in given \cup procs}
       \cup UNION {{e.c.obj : e \in Range(p.components)} : p \in procs}
       \cup UNION {{e.port.obj : e \in Range(p.in_ports) \cup Range(p.out_ports)}
                      \ {"fresh"} : p \in procs}

\* C20: add stores a copy of what it is given.  No component entry of the
\* Processor is an object of the caller, no port the Processor took from a
\* sub-processor is the sub-processor's port object, and no lambda of its
\* predicate closes over the caller's sub-processor: no instance is shared
\* with the caller or between two Processors.  A step in which add writes
\* anything of the Processor leaves the caller's object as it was, and a
\* later change of the caller's object leaves the component list, the port
\* registries and the predicate of the Processor as they were.
C20_AddCopies ==
    /\ [](/\ \A i \in 1..Len(components) : components[i].c.obj \notin CallerObjects
          /\ \A i \in 1..Len(in_ports) : in_ports[i].port.obj \notin CallerObjects
          /\ \A i \in 1..Len(out_ports) : out_ports[i].port.obj \notin CallerObjects
          /\ \A i \in 1..Len(post_select.layers) :
                 post_select.layers[i].obj \notin CallerObjects)
    /\ [][(call = Idle /\ last'.op = "add" /\ other.role = "given"
               /\ <<last, components, n_heralds>>' # <<last, components, n_heralds>>) =>
             \A keep_port \in BOOLEAN, keys \in Mappings(other.proc.m) :
                 add(keys, other.proc, keep_port) => other'.proc = other.proc]_vars
    /\ [][other'.calls > other.calls =>
             /\ components' = components
             /\ in_ports' = in_ports
             /\ out_ports' = out_ports
             /\ post_select' = post_select]_vars

\* a sub-processor with a herald and a predicate was composed through a
\* permutation, and the caller has since given its own object another
\* predicate: the parent holds the component and the herald of the copy and
\* its predicate still calls the function the sub-processor had
C20_Witness ==
    /\ last.op = "add"
    /\ last.err = "ok"
    /\ other.role = "given"
    /\ other.calls > 0
    /\ other.proc.post_select = PredFirst
    /\ post_select.fn = "any"
    /\ post_select.layers # <<>>
    /\ \E i \in 1..Len(components) : components[i].c.kind = "BS"
    /\ \E i \in 1..Len(out_ports) : out_ports[i].port.name = StrName("h")

\* the ports given to add_port in C22: the user's ports and a Herald object
LocationPorts == ConflictPorts \cup {Herald(0, StrName("u"))}

\* C22: in every state left by the constructor or a build call, add_port of
\* a port at a location the port does not support raises the assertion and
\* leaves both registries as they were, and is not refused for the location
\* otherwise; a detector supports the output location only, a Port and a
\* Herald support every location; and an add_port step that ends with the
\* assertion changes neither registry.
C22_PortLocation ==
    /\ [](last.op \in BuildOps =>
             \A port \in LocationPorts, location \in PortLocations :
                 \A m \in 0..circuit_size :
                     LET res == AddPortTo(in_ports, out_ports, m, port, location)
                     IN /\ ~supports_location(port, location) =>
                               /\ res.err = "AssertionError"
                               /\ res.inp = in_ports
                               /\ res.outp = out_ports
                        /\ supports_location(port, location) =>
                               res.err # "AssertionError"
                        /\ port.kind = "Detector" =>
                               (res.err = "AssertionError" <=> location # "OUTPUT")
                        /\ port.kind \in {"Port", "Herald"} =>
                               res.err # "AssertionError")
    /\ [][(call = Idle /\ last'.op = "add_port" /\ last'.err = "AssertionError")
              => UNCHANGED <<in_ports, out_ports>>]_vars

\* add_port of the detector at the default location was refused on a
\* processor that holds a port
C22_Witness ==
    /\ last.op = "add_port"
    /\ last.err = "AssertionError"
    /\ Len(out_ports) > 0
    /\ Len(in_ports) > 0

\* C23, as stated: a successful add with keep_port false leaves no output
\* port that covered a parent mode used by the added object, whether a plain
\* component or a sub-processor; one with keep_port true keeps every output
\* port; and the input ports that were registered stay as they were.
C23_KeepPort ==
    [][(call = Idle /\ last'.op = "add" /\ last'.err = "ok") =>
          \A given \in PlainComponents \cup ChildProcessors, keep_port \in BOOLEAN :
              \A keys \in Mappings(given.m) :
                  add(keys, given, keep_port) =>
                      /\ keep_port =>
                             \A i \in 1..Len(out_ports) :
                                 out_ports[i] \in Range(out_ports')
                      /\ ~keep_port =>
                             \A i \in 1..Len(out_ports) :
                                 Range(out_ports[i].range) \cap Range(keys) # {}
                                     => out_ports[i] \notin Range(out_ports')
                      /\ \A i \in 1..Len(in_ports) : in_ports'[i] = in_ports[i]]_vars

\* every herald mode of s holds its expected photon number
HeraldsHold(s) == \A md \in DOMAIN heralds : s[md + 1] = heralds[md]

\* C24: in every state left by the constructor or a build call, and for
\* every output state s of circuit_size modes with up to two photons on a
\* mode, logical selection accepts s
\* if and only if every herald mode of s holds its expected photon number
\* and, when a predicate is set, the predicate is true on the full state s;
\* when a herald mismatches the answer is a rejection whatever the predicate
\* would say, and when the heralds match the answer is the predicate's.
C24_LogicalSelection ==
    (last.op \in BuildOps) =>
        \A s \in [1..circuit_size -> 0..2] :
            LET pred == IF post_select = NoPredicate THEN "true"
                        ELSE ApplyPredicate(post_select, s)
                sel == state_selected(s)
                hold == HeraldsHold(s)
            IN /\ sel = "true" <=> (hold /\ pred = "true")
               /\ ~hold => sel = "false"
               /\ hold => sel = pred

\* a processor with a herald and a predicate rejects a state its predicate
\* is true on, for the herald, and a state whose heralds match, for the
\* predicate
C24_Witness ==
    /\ last.op \in BuildOps
    /\ DOMAIN heralds # {}
    /\ post_select # NoPredicate
    /\ \E s \in [1..circuit_size -> 0..2] :
           /\ ~HeraldsHold(s)
           /\ ApplyPredicate(post_select, s) = "true"
           /\ state_selected(s) = "false"
    /\ \E s \in [1..circuit_size -> 0..2] :
           /\ HeraldsHold(s)
           /\ state_selected(s) = "false"

\* the three counters of the loop of samples: accepted, not_selected,
\* not_selected_physical
LoopCounters(c) == <<Len(c.output), c.not_selected, c.not_selected_physical>>

\* the counters after one more candidate was classified as how
CountedAs(c, how) ==
    <<Len(c.output) + (IF how = "accepted" THEN 1 ELSE 0),
      c.not_selected + (IF how = "not_selected" THEN 1 ELSE 0),
      c.not_selected_physical + (IF how = "not_selected_physical" THEN 1 ELSE 0)>>

\* C25, as stated: while samples runs, the number of candidates drawn is the sum of
\* the accepted, not_selected and not_selected_physical counts; every pass
\* through the loop classifies its candidate as exactly one of the three and
\* moves that counter by one; and the classification follows the order of
\* the checks: an input below min_mode_post_select photons is
\* not_selected_physical whatever the backend would return, a sampled state
\* with fewer occupied modes than min_mode_post_select is
\* not_selected_physical (never not_selected), and the others are accepted
\* or not_selected by logical selection.
C25_Classification ==
    /\ [](call.pc = "samples" =>
             /\ call.draws = Len(call.output) + call.not_selected
                                 + call.not_selected_physical
             /\ \A selected_input \in DOMAIN inputs_map.v.w :
                    \A sampled_state \in SampledStates(selected_input) \cup {<<>>} :
                        LET how == Classify(selected_input, sampled_state)
                            lit == Cardinality({i \in 1..Len(sampled_state) :
                                                   sampled_state[i] > 0})
                        IN IF PhotonCount(selected_input) < min_mode_post_select.v
                           THEN how = "not_selected_physical"
                           ELSE sampled_state # <<>> =>
                                    IF lit < min_mode_post_select.v
                                    THEN how = "not_selected_physical"
                                    ELSE IF state_selected(sampled_state) = "true"
                                    THEN how = "accepted"
                                    ELSE how = "not_selected")
    /\ [][(call.pc = "samples" /\ call'.pc = "samples" /\ call' # call) =>
             /\ call'.draws = call.draws + 1
             /\ \E how \in {"accepted", "not_selected", "not_selected_physical"} :
                    /\ LoopCounters(call') = CountedAs(call, how)
                    /\ \E selected_input \in DOMAIN inputs_map.v.w :
                           \E sampled_state \in SampledStates(selected_input) :
                               Classify(selected_input, sampled_state) = how]_vars

\* the (input_state, output_state) pairs the double loop of probs goes
\* through with a non-zero backend probability pn / pd, and the weight v of
\* each, p * input_prob in units of 1 / (inputs_map.den * ProbsScale)
EnumeratedPairs ==
    LET sim == simulator.v
        scale == ProbsScale(sim)
    IN UNION {{[i |-> s, o |-> o, pn |-> 1,
                pd |-> Cardinality(BackendSupport(sim, s)),
                v |-> inputs_map.v.w[s]
                          * (scale \div Cardinality(BackendSupport(sim, s)))] :
                  o \in BackendSupport(sim, s)} : s \in DOMAIN inputs_map.v.w}

\* num / den < min_p, for 0 <= num <= den: never when min_p <= 1 / den and
\* num > 0, else by cross-multiplication
UnderCutoff(num, den) ==
    IF num = 0 THEN TRUE
    ELSE IF min_p[2] \div den >= min_p[1] THEN FALSE
    ELSE num * min_p[2] < min_p[1] * den

\* C26: when probs returns, every (input state, output state) pair whose
\* backend probability is at or above the cutoff was added, with its weight
\* p * input_prob, to exactly one of three sums: the physical loss when its
\* output state has fewer occupied modes than min_mode_post_select, else
\* the accepted mass when logical selection accepts the output state, else
\* the discarded mass; a pair below the cutoff was added to none, whatever
\* its weight; and physical_perf is 1 minus the physical loss, or 0 when
\* that value is below the cutoff, within [0, 1].
C26_ProbsAccumulators ==
    (last.op = "probs" /\ last.err = "ok") =>
        LET r == last.res
            den == inputs_map.v.den * ProbsScale(simulator.v)
            above == {c \in EnumeratedPairs : c.pn * min_p[2] >= min_p[1] * c.pd}
            fails(c) == Cardinality({i \in 1..Len(c.o) : c.o[i] > 0})
                            < min_mode_post_select.v
            lost == {c \in above : fails(c)}
            accepted == {c \in above \ lost : state_selected(c.o) = "true"}
            discarded == (above \ lost) \ accepted
            left == den - r.not_selected_physical
        IN /\ r.not_selected_physical = SumV(lost)
           /\ r.all_p = SumV(accepted)
           /\ r.not_selected = SumV(discarded)
           /\ r.not_selected_physical + r.all_p + r.not_selected = SumV(above)
           /\ SumV(above) + SumV(EnumeratedPairs \ above) = den
           /\ r.kept = {c.o : c \in accepted}
           /\ left >= 0
           /\ IF UnderCutoff(left, den)
              THEN r.physical_perf[1] = 0
              ELSE r.physical_perf[1] * den = left * r.physical_perf[2]
           /\ r.physical_perf[2] > 0
           /\ 0 <= r.physical_perf[1]
           /\ r.physical_perf[1] <= r.physical_perf[2]

\* probs returned under the coarse cutoff on a heralded processor with a
\* lossy source: pairs below the cutoff were left out, a pair whose weight
\* is below the cutoff but whose backend probability is not was counted,
\* and mass went to each of the three sums
C26_Witness ==
    /\ last.op = "probs"
    /\ last.err = "ok"
    /\ source = "lossy"
    /\ min_p = <<1, 2>>
    /\ DOMAIN heralds # {}
    /\ \E c \in EnumeratedPairs : c.pn * min_p[2] < min_p[1] * c.pd
    /\ \E c \in EnumeratedPairs :
           /\ c.pn * min_p[2] >= min_p[1] * c.pd
           /\ c.v * min_p[2] < min_p[1] * inputs_map.v.den * ProbsScale(simulator.v)
    /\ last.res.not_selected_physical > 0
    /\ last.res.all_p > 0
    /\ last.res.not_selected > 0

\* the permutation entry e routes every state as applying first and then
\* second does
RoutesAs(e, first, second, size) ==
    \A st \in [1..size -> 0..1] :
        Route(e.r, e.c.perm, st)
            = Route(second.r, second.c.perm, Route(first.r, first.c.perm, st))

\* the entries list[p+1 .. p+k] are the components of child, in their
\* order, each with the content of the child's and on its modes shifted by
\* lo
ShiftedAt(list, p, child, lo) ==
    \A i \in 1..Len(child.components) :
        /\ list[p + i].r = [j \in 1..Len(child.components[i].r) |->
                               child.components[i].r[j] + lo]
        /\ [list[p + i].c EXCEPT !.obj = "any"]
               = [child.components[i].c EXCEPT !.obj = "any"]

\* two permutation entries over the same modes that undo each other
InversePair(e, f) ==
    /\ e.c.kind = "PERM" /\ f.c.kind = "PERM"
    /\ e.r = f.r
    /\ Len(e.c.perm) = Len(f.c.perm)
    /\ \A j \in 1..Len(e.c.perm) : f.c.perm[e.c.perm[j] + 1] = j - 1

\* the permutation entry e aligns the call: it starts at the base mode of
\* the mapping and routes the i-th requested parent mode to the i-th
\* connected mode of the object, counted from the base mode
Aligns(e, keys, r_list) ==
    LET lo == Min(Range(keys))
    IN /\ e.c.kind = "PERM"
       /\ e.r[1] = lo
       /\ \A i \in 1..Len(keys) : e.c.perm[keys[i] - lo + 1] = r_list[i]

\* C27: an add step that succeeds never shortens the component list and
\* keeps every entry before the last one as it was.  With lo the base mode
\* of the mapping the call was given (its smallest parent mode), what the
\* call contributes is, for a plain component, the component on the modes
\* lo, lo + 1, ... behind the whole list, with the aligning permutation in
\* front of it when the requested modes are not these in order; and for a
\* sub-processor, the aligning permutation (a new entry behind the whole
\* list, or merged into a last entry that is a permutation, the merged
\* entry routing as the old entry followed by the aligning one), then the
\* child's components in their order, each on its modes shifted by lo,
\* then the exact inverse of the aligning permutation; or, when no
\* permutation is inserted, only the child's components behind the whole
\* list, each shifted by lo.
C27_ComponentOrder ==
    [][(call = Idle /\ last'.op = "add" /\ last'.err = "ok"
           /\ other.role = "given") =>
          \A keep_port \in BOOLEAN, keys \in Mappings(other.proc.m) :
              add(keys, other.proc, keep_port) =>
                  LET given == other.proc
                      n == Len(components)
                      new == components'
                      size == n_moi' + n_heralds'
                      lo == Min(Range(keys))
                      behind(k) == Len(new) = n + k /\ SubSeq(new, 1, n) = components
                  IN /\ Len(new) >= n
                     /\ \A i \in 1..(n - 1) : new[i] = components[i]
                     /\ IF given.kind # "Processor"
                        THEN LET placed(e) ==
                                     /\ e.r = PyRange(lo, lo + given.m)
                                     /\ [e.c EXCEPT !.obj = "any"]
                                            = [given EXCEPT !.obj = "any"]
                             IN IF keys = PyRange(lo, lo + given.m)
                                THEN behind(1) /\ placed(new[n + 1])
                                ELSE /\ behind(2)
                                     /\ Aligns(new[n + 1], keys, PyRange(0, given.m))
                                     /\ placed(new[n + 2])
                        ELSE LET k == Len(given.components)
                                 r_list == NonHeraldModes(given)
                             IN \/ /\ behind(k)
                                   /\ ShiftedAt(new, n, given, lo)
                                \/ /\ behind(k + 2)
                                   /\ Aligns(new[n + 1], keys, r_list)
                                   /\ ShiftedAt(new, n + 1, given, lo)
                                   /\ InversePair(new[n + 1], new[n + k + 2])
                                \/ /\ n > 0 /\ components[n].c.kind = "PERM"
                                   /\ Len(new) = n + k + 1
                                   /\ new[n].c.kind = "PERM"
                                   /\ ShiftedAt(new, n, given, lo)
                                   /\ \E a \in [1..Len(new[n + k + 1].r) ->
                                                    0..(Len(new[n + k + 1].r) - 1)] :
                                          LET aligning == [r |-> new[n + k + 1].r,
                                                           c |-> PERM(a)]
                                          IN /\ InversePair(aligning, new[n + k + 1])
                                             /\ Aligns(aligning, keys, r_list)
                                             /\ RoutesAs(new[n], components[n],
                                                         aligning, size)]_vars

\* a sub-processor was composed through a permutation behind a component
\* the parent already held: the list ends with the aligning permutation, the
\* child's component and the inverse permutation
C27_Witness ==
    /\ last.op = "add"
    /\ last.err = "ok"
    /\ Len(components) = 4
    /\ components[1].c.kind \in {"BS", "Circuit"}
    /\ components[2].c.kind = "PERM"
    /\ components[3].c.kind = "BS"
    /\ components[4].c.kind = "PERM"
    /\ components[4].r = components[2].r

\* no entry of the registry covers a mode of the range
RangeFree(ports, range) ==
    \A i \in 1..Len(ports) : Range(ports[i].range) \cap Range(range) = {}

\* the registry holds the port on the range
Registered(ports, port, range) ==
    \E i \in 1..Len(ports) : ports[i].port = port /\ ports[i].range = range

\* C28: in every state left by the constructor or a build call, add_port at
\* the input location succeeds on every range that carries no input port,
\* whatever the output registry holds there, registers the port at the input
\* and leaves the output registry as it was; and add_port at the output
\* location succeeds on every range that carries no output port, registers
\* the port at the output and leaves the input registry as it was.
C28_PerLocation ==
    (last.op \in BuildOps) =>
        \A port \in LocationPorts, m \in 0..circuit_size :
            LET range == PyRange(m, m + port.m)
                at_in == AddPortTo(in_ports, out_ports, m, port, "INPUT")
                at_out == AddPortTo(in_ports, out_ports, m, port, "OUTPUT")
            IN /\ (supports_location(port, "INPUT") /\ RangeFree(in_ports, range)) =>
                      /\ at_in.err = "ok"
                      /\ Registered(at_in.inp, port, range)
                      /\ at_in.outp = out_ports
               /\ (supports_location(port, "OUTPUT") /\ RangeFree(out_ports, range)) =>
                      /\ at_out.err = "ok"
                      /\ Registered(at_out.outp, port, range)
                      /\ at_out.inp = in_ports

\* add_port succeeded at one location on modes that carry another port at
\* the other location only
C28_Witness ==
    /\ last.op = "add_port"
    /\ last.err = "ok"
    /\ \E i \in 1..Len(in_ports), j \in 1..Len(out_ports) :
           /\ in_ports[i].port.obj # out_ports[j].port.obj
           /\ Range(in_ports[i].range) \cap Range(out_ports[j].range) # {}
           /\ ~Registered(out_ports, in_ports[i].port, in_ports[i].range)
           /\ ~Registered(in_ports, out_ports[j].port, out_ports[j].range)

\* the modes on which a registry holds a herald
HeraldModes(ports) ==
    {ports[i].range[1] : i \in {k \in 1..Len(ports) : ports[k].port.kind = "Herald"}}

\* C29, as stated: after any sequence of add, add_herald and add_port calls,
\* calls that fail included, n_heralds is the number of modes that carry a
\* herald, and the modes with a herald at the input are the modes with a
\* herald at the output, each with the same expected value on both sides.
C29_HeraldCount ==
    /\ n_heralds = Cardinality(DOMAIN heralds)
    /\ HeraldModes(in_ports) = DOMAIN heralds
    /\ HeraldsOf(in_ports) = heralds

\* Processor.is_mode_connectible with the outcome of the call: the list of
\* closed modes is built first for a mode within the size, and writing to
\* it at a position outside the size raises IndexError
is_mode_connectible_outcome(mode) ==
    IF mode < 0 THEN "False"
    ELSE IF mode >= circuit_size THEN "False"
    ELSE IF ~ClosedModesOk(out_ports, circuit_size) THEN "IndexError"
    ELSE IF mode \in ClosedModes(out_ports, circuit_size) THEN "False"
    ELSE "True"

\* mode is within the range of an output port that closes its modes
CoveredByClosing(outp, mode) ==
    \E i \in 1..Len(outp) :
        is_output_photonic_mode_closed(outp[i].port) /\ mode \in Range(outp[i].range)

\* C30, as stated: heralds and detectors close their output modes and
\* ordinary ports do not; is_mode_connectible(m) returns False exactly when
\* m < 0, m >= circuit_size or m is covered by an output port that closes
\* the mode, and True otherwise; and a mode given to a successful add_herald
\* is not connectible then nor after any later call.
C30_Connectible ==
    /\ [](/\ \A port \in ConflictPorts \cup {Herald(0, StrName("u"))} :
                is_output_photonic_mode_closed(port)
                    <=> port.kind \in {"Herald", "Detector"}
          /\ \A mode \in -1..circuit_size :
                is_mode_connectible_outcome(mode)
                    = IF \/ mode < 0
                         \/ mode >= circuit_size
                         \/ CoveredByClosing(out_ports, mode)
                      THEN "False" ELSE "True")
    /\ [][\A mode \in DOMAIN heralds :
              /\ mode \in DOMAIN HeraldsOf(out_ports')
              /\ is_mode_connectible_outcome(mode) = "False"]_vars

\* a port registry without the identity of the port objects
PortValues(ports) ==
    [i \in 1..Len(ports) |-> [ports[i] EXCEPT !.port.obj = "any"]]

\* a component list without the identity of the component objects
ComponentValues(comps) ==
    [i \in 1..Len(comps) |-> [comps[i] EXCEPT !.c.obj = "any"]]

\* the two processors have the same component order, ports, heralds,
\* counts, predicate and input configuration
SameProcessor(p, q) ==
    /\ ComponentValues(p.components) = ComponentValues(q.components)
    /\ PortValues(p.in_ports) = PortValues(q.in_ports)
    /\ PortValues(p.out_ports) = PortValues(q.out_ports)
    /\ HeraldsOf(p.out_ports) = HeraldsOf(q.out_ports)
    /\ p.n_moi = q.n_moi
    /\ p.n_heralds = q.n_heralds
    /\ p.post_select = q.post_select
    /\ p.inputs_map = q.inputs_map
    /\ p.min_mode_post_select = q.min_mode_post_select
    /\ p.source = q.source

\* C21: copy() leaves the original as it was and returns a Processor with
\* the same component order, ports, heralds, counts, predicate and input
\* configuration; and every later add, add_port, add_herald,
\* set_postprocess or with_input on one of the two, however it ends, leaves
\* the other one unchanged.
C21_CopyIndependent ==
    /\ [][(other.role = "none" /\ other'.role # "none") =>
              /\ SameProcessor(SelfProcessor', other'.proc)
              /\ IF other'.role = "copy"
                 THEN SelfProcessor' = SelfProcessor
                 ELSE other'.proc = SelfProcessor]_vars
    /\ [][other.role # "none" => other'.proc = other.proc]_vars

\* an add on the copy has succeeded: the copy has one component more than
\* the original, which had components when it was copied
C21_Witness ==
    /\ other.role = "original"
    /\ last.op = "add" /\ last.err = "ok"
    /\ Len(other.proc.components) > 0
    /\ Len(components) > Len(other.proc.components)

\* C31, as stated: an add_herald call that fails, on a mode that carries a
\* port at either location or with an expected value other than 0 and 1,
\* leaves n_moi, n_heralds, both port registries and the herald map as they
\* were before the call.
C31_FailedHerald ==
    [][(call = Idle /\ last'.op = "add_herald" /\ last'.err # "ok") =>
           /\ UNCHANGED <<n_moi, n_heralds, in_ports, out_ports>>
           /\ HeraldsOf(out_ports') = heralds]_vars

\* C32, as stated: an add_port call that fails with a mode conflict leaves
\* both port registries unchanged, the call at the in-and-out location
\* whose input range is free and whose output range is occupied included.
C32_FailedPort ==
    [][(call = Idle /\ last'.op = "add_port"
            /\ last'.err = "UnavailableModeException") =>
           UNCHANGED <<in_ports, out_ports>>]_vars

\* C33, as stated: a with_input call that fails on a length mismatch leaves
\* the cached input distribution and min_mode_post_select unchanged; when
\* no input was cached before the call, samples and probs fail with the
\* missing-input precondition after it as they did before.
C33_FailedInput ==
    [][(call = Idle /\ last'.op = "with_input"
            /\ last'.err = "AssertionError") =>
           /\ UNCHANGED <<inputs_map, min_mode_post_select>>
           /\ inputs_map.none =>
                  /\ InitCommandError("samples")' = "AssertionError: Input is missing"
                  /\ InitCommandError("probs")' = "AssertionError: Input is missing"]_vars

\* the cached input distribution is one that with_input computes for the
\* present counters and heralds
InputIsCurrent ==
    /\ n_moi >= 0
    /\ \E input_state \in [1..n_moi -> 0..1] :
           LET st == WithInputResult(input_state)
           IN st.err = "ok" /\ inputs_map = Some(st.dist)

\* C34, as stated: whenever samples or probs passes its preconditions,
\* every state of the cached input distribution has circuit_size modes and
\* the distribution is the one built from the present heralds; no with_input
\* followed by add, add_herald or add_port lets samples or probs run on a
\* distribution computed for an earlier layout of the modes.
C34_InputCurrent ==
    (call = Idle /\ \E command_name \in {"samples", "probs"} :
                        InitCommandError(command_name) = "ok") =>
        /\ \A input_state \in DOMAIN inputs_map.v.w : Len(input_state) = circuit_size
        /\ InputIsCurrent

\* C35: a simulator the Processor holds was built from its present
\* component list and size; a samples or probs call that passes its
\* preconditions builds one when there is none, which is the case after
\* every add that went past the predicate test, and goes on with the one
\* it holds otherwise.
C35_SimulatorCurrent ==
    /\ [](~simulator.none =>
             simulator.v = [circuit |-> components, size |-> circuit_size])
    /\ [][(call = Idle /\ last'.op \in {"samples", "probs"}
               /\ InitCommandError(last'.op) = "ok") =>
              /\ ~simulator'.none
              /\ simulator'.v = [circuit |-> components, size |-> circuit_size]
              /\ ~simulator.none => simulator' = simulator]_vars
    /\ [][(call = Idle /\ last'.op = "add" /\ components' # components) =>
              simulator'.none]_vars

\* probs has returned with a simulator built for a list of two components,
\* at least one of which was put in by an add after construction
C35_Witness ==
    /\ last.op = "probs"
    /\ last.err = "ok"
    /\ ~simulator.none
    /\ Len(simulator.v.circuit) = 2
    /\ simulator.v.circuit = components

\* Processor.in_port_names / out_port_names: a list of circuit_size empty
\* names, then for every port in registration order the name written at
\* each mode of its range; a mode outside the list raises IndexError
RECURSIVE PortNamesFrom(_, _, _)
PortNamesFrom(ports, i, result) ==
    IF i > Len(ports) THEN [err |-> "ok", names |-> result]
    ELSE IF \E j \in 1..Len(ports[i].range) : ~PyIndexOk(ports[i].range[j], Len(result))
    THEN [err |-> "IndexError", names |-> <<>>]
    ELSE PortNamesFrom(ports, i + 1,
             [k \in 1..Len(result) |->
                 IF \E j \in 1..Len(ports[i].range) :
                        PyIndex(ports[i].range[j], Len(result)) = k - 1
                 THEN ports[i].port.name ELSE result[k]])

in_port_names ==
    PortNamesFrom(in_ports, 1, [k \in 1..circuit_size |-> StrName("")])

out_port_names ==
    PortNamesFrom(out_ports, 1, [k \in 1..circuit_size |-> StrName("")])

\* every registered port lies within the modes 0 .. circuit_size-1 and the
\* two name lists have one name per mode
PortsInRange ==
    /\ \A ports \in {in_ports, out_ports} :
           \A i \in 1..Len(ports) : \A j \in 1..Len(ports[i].range) :
               ports[i].range[j] >= 0 /\ ports[i].range[j] < circuit_size
    /\ in_port_names.err = "ok" /\ Len(in_port_names.names) = circuit_size
    /\ out_port_names.err = "ok" /\ Len(out_port_names.names) = circuit_size

\* C36, as stated: a successful add_port, add_herald or add on a Processor
\* whose registered ports all lie within 0 .. circuit_size-1 leaves one
\* whose registered ports all lie within that range, so that in_port_names
\* and out_port_names return circuit_size names; the constructed Processor
\* has no port.
C36_PortsInRange ==
    /\ last.op = "init" => PortsInRange
    /\ [][(call = Idle /\ PortsInRange
               /\ last'.op \in {"add_port", "add_herald", "add"}
               /\ last'.err = "ok") => PortsInRange']_vars

\* the sub-processors that carry a post-selection predicate
PredicateCarrying == {child \in ChildProcessors : child.post_select # NoPredicate}

\* C37, as stated: a successful add of a sub-processor that carries a
\* predicate leaves the parent with a predicate; and a parent that holds a
\* predicate it got from an add (set_postprocess was never called with one)
\* holds a predicate after every later call, and every add made on it ends
\* with RuntimeError, so it never takes the components of a second
\* predicate-carrying sub-processor.
C37_LockedByAdd ==
    /\ [][(call = Idle /\ last'.op = "add" /\ last'.err = "ok") =>
              \A child \in PredicateCarrying, keep_port \in BOOLEAN :
                  \A keys \in Mappings(child.m) :
                      add(keys, child, keep_port) => post_select' # NoPredicate]_vars
    /\ [][(call = Idle /\ post_select # NoPredicate /\ ~hist.postprocess_set) =>
              /\ post_select' # NoPredicate
              /\ last'.op = "add" => last'.err = "RuntimeError"]_vars

\* some input state of the cached distribution has an output that the
\* backend can sample and that passes the physical and logical selection
Acceptable ==
    \E selected_input \in DOMAIN inputs_map.v.w :
        \E sampled_state \in SampledStates(selected_input) :
            Classify(selected_input, sampled_state) = "accepted"

\* C38, as stated: under fair sampling a samples call ends once some input
\* state has an acceptable output, and it ends by returning its result;
\* when no outcome can be accepted and count > 0 the loop never ends, by a
\* return (with a partial result or any other) or otherwise.
C38_SamplesTerminates ==
    /\ (call.pc = "samples" /\ Acceptable) ~> (call = Idle)
    /\ [][(call.pc = "samples" /\ Acceptable /\ call' = Idle) =>
              (last'.op = "samples" /\ last'.err = "ok")]_vars
    /\ [][(call.pc = "samples" /\ call.count > 0 /\ ~Acceptable) =>
              call'.pc = "samples"]_vars

\* C39, as stated: with a progress callback, the callback has been invoked
\* once for every accepted sample and at no other time, the i-th time with
\* the fraction i / count, so that the values increase strictly and the
\* last one, given when the count-th sample is accepted, is 1; and a
\* callback that raises ends samples with its exception and no result.
C39_Progress ==
    /\ []((call.pc = "samples" /\ call.progress_callback = "reports") =>
             /\ Len(call.reports) = Len(call.output)
             /\ \A i \in 1..Len(call.reports) : call.reports[i] = <<i, call.count>>)
    /\ [][(call.pc = "samples" /\ call.progress_callback = "raises") =>
              /\ call'.pc = "samples" => call'.output = call.output
              /\ call' = Idle => (last'.err # "ok" /\ last'.res = NoResult)]_vars

\* C40: while a mode_post_select value is configured, min_mode_post_select
\* is that value: after mode_post_selection, and after every with_input
\* call made later, however it ends and whatever number of photons the
\* input and the heralds give.
C40_ExplicitThreshold ==
    /\ [](~parameters.none => min_mode_post_select = Some(parameters.v))
    /\ [][(call = Idle /\ last'.op = "with_input" /\ ~parameters.none) =>
              /\ UNCHANGED parameters
              /\ min_mode_post_select' = Some(parameters.v)]_vars

\* a with_input has succeeded whose derived photon count differs from the
\* configured value
C40_Witness ==
    /\ last.op = "with_input"
    /\ last.err = "ok"
    /\ ~parameters.none
    /\ min_mode_post_select = Some(parameters.v)
    /\ n_moi >= 0
    /\ \E input_state \in [1..n_moi -> 0..1] :
           LET st == WithInputResult(input_state)
           IN /\ st.err = "ok"
              /\ inputs_map = Some(st.dist)
              /\ st.expected_photons # parameters.v
    /\ \A input_state \in [1..n_moi -> 0..1] :
           LET st == WithInputResult(input_state)
           IN (st.err = "ok" /\ inputs_map = Some(st.dist)) =>
                  st.expected_photons # parameters.v

====
